---------------------------- MODULE Spec2Model ----------------------------
(***************************************************************************)
(* A model of the ckmaya data-translation core:                            *)
(*   - the name codec (cknif.toMayaName, ckphysics.toCkName),              *)
(*   - the bind-pose rescalers (ckcore.scaleMesh, ckcore.scaleRig),        *)
(*   - the nif skin weight remap (cknif.fixNifMeshes).                     *)
(* Names are sequences of one-character strings.  Weights and scale        *)
(* factors are fixed-point integers in units of 1/10000.                   *)
(***************************************************************************)
EXTENDS Integers, Sequences, FiniteSets, TLC

VARIABLES
    \* ---- name codec ----
    codecName,      \* the name the conversion chain started from
    codecCur,       \* the current value of the name
    codecOps,       \* the conversions applied so far, in order
    \* ---- rescale (scaleMesh / scaleRig) ----
    scene,          \* the Maya scene: joints, meshes, connections
    scene0,         \* the scene as it was when the operation was called
    call,           \* the call being executed: [op, scale]
    spc,            \* position inside the running operation
    sidx,           \* loop index of the running loop
    slocal,         \* locals of the operation (snapshots, toConnect, skeleton)
    serr,           \* the exception that left the operation, "" if none
    \* ---- nif weight remap (fixNifMeshes) ----
    meshes,         \* the scene meshes passed to fixNifMeshes
    nif,            \* the nif data: a sequence of tri shapes
    nif0,           \* the nif data as it was when fixNifMeshes was called
    rcalls,         \* the nif data as the earlier calls of fixNifMeshes found it
    rpc,            \* position inside fixNifMeshes
    rmesh,          \* index of the mesh being patched
    rblock,         \* index of the partition block being patched
    rvert,          \* index of the partition vertex being patched
    rlocal,         \* locals: tri shape, vertex mapping, bone indices, nif weights
    rerr,           \* the exception that left fixNifMeshes, "" if none
    \* ---- skin export (exportSkin) ----
    xscene,         \* the project and the Maya scene exportSkin works on
    xscene0,        \* the scene as it was when exportSkin was called
    xpc,            \* position inside exportSkin
    xidx,           \* index of the mesh being validated or prepared
    xlog,           \* the effects so far, in order: undo chunk, edits, files
    xerr,           \* the exception that left exportSkin, "" if none
    \* ---- physics capsules (ckphysics) ----
    phys,           \* the Maya scene: joints, rigid bodies, materials
    plast,          \* the last call: operation, arguments, scene before, error
    pcount,         \* the number of calls made so far
    \* ---- physics tool window (physics_tool) ----
    tool            \* the window, its edit widget, Maya's callbacks and idle queue

codecVars == <<codecName, codecCur, codecOps>>
scaleVars == <<scene, scene0, call, spc, sidx, slocal, serr>>
remapVars == <<meshes, nif, nif0, rcalls, rpc, rmesh, rblock, rvert, rlocal, rerr>>
exportVars == <<xscene, xscene0, xpc, xidx, xlog, xerr>>
physVars == <<phys, plast, pcount>>
toolVars == <<tool>>
vars == <<codecVars, scaleVars, remapVars, exportVars, physVars, toolVars>>

-----------------------------------------------------------------------------
(* Generic helpers *)

Range(f) == {f[x] : x \in DOMAIN f}

SeqsUpTo(S, n) == UNION {[1..k -> S] : k \in 0..n}

IsPrefix(p, s) == Len(p) <= Len(s) /\ SubSeq(s, 1, Len(p)) = p

-----------------------------------------------------------------------------
(* Name codec *)

MaxNameLen == 4

NameChars == {" ", "[", "]", "_", "s", "o", "b", "|"}

\* Python's str.replace(old, new): left to right, non-overlapping.
RECURSIVE Replace(_, _, _)
Replace(s, old, new) ==
    IF s = <<>> THEN <<>>
    ELSE IF IsPrefix(old, s)
         THEN new \o Replace(SubSeq(s, Len(old) + 1, Len(s)), old, new)
         ELSE <<Head(s)>> \o Replace(Tail(s), old, new)

\* name.split('|')[-1]
RECURSIVE LastComponent(_)
LastComponent(s) ==
    IF s = <<>> THEN <<>>
    ELSE IF s[Len(s)] = "|" THEN <<>>
         ELSE LastComponent(SubSeq(s, 1, Len(s) - 1)) \o <<s[Len(s)]>>

toMayaName(name) ==
    LET n1 == Replace(name, <<" ">>, <<"_", "s", "_">>)
        n2 == Replace(n1, <<"[">>, <<"_", "o", "b", "_">>)
        n3 == Replace(n2, <<"]">>, <<"_", "c", "b", "_">>)
    IN  n3

\* toCkName with the decoding enabled but the bracket tokens swapped.
toCkNameSwapped(name) ==
    LET n0 == LastComponent(name)
        n1 == Replace(n0, <<"_", "o", "b", "_">>, <<"]">>)
        n2 == Replace(n1, <<"_", "c", "b", "_">>, <<"[">>)
        n3 == Replace(n2, <<"_", "s", "_">>, <<" ">>)
    IN  n3

\* The three replace calls of the source are commented out.
toCkName(name) == LastComponent(name)

\* A name to convert; the other operations are idle.
InitCodec ==
    /\ codecName \in SeqsUpTo(NameChars, MaxNameLen)
    /\ codecCur = codecName
    /\ codecOps = <<>>
    /\ scene = <<>>
    /\ scene0 = <<>>
    /\ call = <<>>
    /\ spc = "idle"
    /\ sidx = 0
    /\ slocal = <<>>
    /\ serr = ""
    /\ meshes = <<>>
    /\ nif = <<>>
    /\ nif0 = <<>>
    /\ rcalls = <<>>
    /\ rpc = "idle"
    /\ rmesh = 0
    /\ rblock = 0
    /\ rvert = 0
    /\ rlocal = <<>>
    /\ rerr = ""
    /\ tool = <<>>
    /\ xscene = <<>>
    /\ xscene0 = <<>>
    /\ xpc = "idle"
    /\ xidx = 0
    /\ xlog = <<>>
    /\ xerr = ""
    /\ phys = <<>>
    /\ plast = <<>>
    /\ pcount = 0

\* An asset name is converted to its scene name.
ToMayaName ==
    /\ Len(codecOps) < 2
    /\ codecCur' = toMayaName(codecCur)
    /\ codecOps' = Append(codecOps, "toMayaName")
    /\ UNCHANGED <<codecName, scaleVars, remapVars, exportVars, physVars, toolVars>>

\* A scene name is converted to its asset name.
ToCkName ==
    /\ Len(codecOps) < 2
    /\ codecCur' = toCkName(codecCur)
    /\ codecOps' = Append(codecOps, "toCkName")
    /\ UNCHANGED <<codecName, scaleVars, remapVars, exportVars, physVars, toolVars>>

NextCodec == ToMayaName \/ ToCkName


-----------------------------------------------------------------------------
(* Bind-pose rescale: the scene *)

\* Fixed point: 1.0 is Unit, 0.001 is 10.
Unit == 10 * 1000

NumJoints == 3

MaxInfluences == 2

\* scale < 0.001 in scaleMesh
ScaleEpsilon == 10

Joints == 1..NumJoints

MeshVerts == 1..2

TransformAttrs == <<"tx", "ty", "tz", "rx", "ry", "rz", "sx", "sy", "sz">>

ScaleVals == {0 - Unit, 0, 5, ScaleEpsilon, Unit \div 2, Unit, 2 * Unit}

VAdd(a, b) == [i \in 1..3 |-> a[i] + b[i]]

VNeg(a) == [i \in 1..3 |-> 0 - a[i]]

\* value * scale for a float stored in fixed point
Mul(v, s) == (v * s) \div Unit

VMul(a, s) == [i \in 1..3 |-> Mul(a[i], s)]

\* Joint hierarchies: a parent has a smaller id than its children, 0 is the world.
Forests == {p \in [Joints -> 0..NumJoints] : \A j \in Joints : p[j] < j}

JointOf(p, j) == [parent |-> p[j], t |-> <<j * Unit, 2 * Unit, 0 - Unit>>, radius |-> Unit]

\* Injective sequences of joints: the ordered influence list of a skin cluster.
InfluenceLists ==
    {s \in SeqsUpTo(Joints, MaxInfluences) :
        /\ Len(s) >= 1
        /\ \A i, k \in 1..Len(s) : i # k => s[i] # s[k]}

RECURSIVE WorldPos(_, _)
WorldPos(joints, j) ==
    IF j = 0 THEN <<0, 0, 0>>
    ELSE VAdd(WorldPos(joints, joints[j].parent), joints[j].t)

\* The inverse of a joint's world matrix (translation part).
InverseWorld(joints, j) == VNeg(WorldPos(joints, j))

RECURSIVE IsAncestor(_, _, _)
IsAncestor(joints, a, j) ==
    IF j = 0 THEN FALSE
    ELSE joints[j].parent = a \/ IsAncestor(joints, a, joints[j].parent)

Descendants(joints, j) == {k \in DOMAIN joints : IsAncestor(joints, j, k)}

\* A skin cluster bound to mesh vertices: influence i has logical index i - 1.
SkinOf(joints, infl) ==
    [infl    |-> infl,
     weights |-> [v \in MeshVerts |-> [i \in 1..Len(infl) |-> (v + i) * (Unit \div 10)]],
     bindPre |-> [i \in 1..Len(infl) |-> InverseWorld(joints, infl[i])]]

NoSkin == [infl |-> <<>>, weights |-> <<>>, bindPre |-> <<>>]

MeshOf(joints, infl) ==
    [skin   |-> IF infl = <<>> THEN NoSkin ELSE SkinOf(joints, infl),
     points |-> [v \in MeshVerts |-> <<v * Unit, Unit, 0>>],
     sattr  |-> Unit,
     slock  |-> FALSE]

\* Nodes other than joints: a controller that drives joints, a utility node
\* that is driven by a joint.
CtlNode == 0 - 1

UtilNode == 0 - 2

\* A plug is <<node, attribute>>; a connection is <<source plug, destination plug>>.
ConnectionChoices ==
    {{},
     {<<<<CtlNode, "tx">>, <<1, "tx">>>>, <<<<CtlNode, "ry">>, <<2, "ry">>>>},
     {<<<<CtlNode, "tx">>, <<1, "tx">>>>, <<<<2, "sx">>, <<UtilNode, "in">>>>},
     {<<<<2, "tz">>, <<1, "tz">>>>, <<<<CtlNode, "tx">>, <<1, "sy">>>>}}

RECURSIVE SetToSeq(_)
SetToSeq(S) ==
    IF S = {} THEN <<>>
    ELSE LET x == CHOOSE y \in S : TRUE IN <<x>> \o SetToSeq(S \ {x})

\* cmds.listConnections(plug, s=True, plugs=True): the destination flag keeps
\* its default (true), so the plugs on both sides are listed.
ListConnections(conns, plug) ==
    SetToSeq({c[1] : c \in {d \in conns : d[2] = plug}})
        \o SetToSeq({c[2] : c \in {d \in conns : d[1] = plug}})

\* [joint.attr for attr in 9 attrs for each listed plug], in loop order
RECURSIVE JointPlugPairs(_, _, _)
JointPlugPairs(conns, joint, a) ==
    IF a > Len(TransformAttrs) THEN <<>>
    ELSE LET dst == <<joint, TransformAttrs[a]>>
             listed == ListConnections(conns, dst)
         IN  [i \in 1..Len(listed) |-> <<listed[i], dst>>]
                 \o JointPlugPairs(conns, joint, a + 1)

\* The pairs recorded for the reconnect without any disconnectAttr
DisconnectNone(pairs, conns, toConnect) ==
    [conns |-> conns, toConnect |-> toConnect \o pairs, ok |-> TRUE]

\* The disconnectAttr of each pair without the append to toConnect
RECURSIVE DisconnectUnrecorded(_, _, _)
DisconnectUnrecorded(pairs, conns, toConnect) ==
    IF pairs = <<>> THEN [conns |-> conns, toConnect |-> toConnect, ok |-> TRUE]
    ELSE IF Head(pairs) \in conns
         THEN DisconnectUnrecorded(Tail(pairs), conns \ {Head(pairs)}, toConnect)
         ELSE [conns |-> conns, toConnect |-> toConnect, ok |-> FALSE]

\* toConnect.append(...); cmds.disconnectAttr(inputPlug, joint.attr) for each pair.
\* disconnectAttr raises when there is no connection from its first to its
\* second argument.
RECURSIVE DisconnectAll(_, _, _)
DisconnectAll(pairs, conns, toConnect) ==
    IF pairs = <<>> THEN [conns |-> conns, toConnect |-> toConnect, ok |-> TRUE]
    ELSE LET pr == Head(pairs)
             tc == Append(toConnect, pr)
         IN  IF pr \in conns
             THEN DisconnectAll(Tail(pairs), conns \ {pr}, tc)
             ELSE [conns |-> conns, toConnect |-> tc, ok |-> FALSE]

\* cmds.listRelatives(joint, ad=True, type='joint'): deepest joints first.
RECURSIVE listRelativesAD(_, _, _)
listRelativesAD(joints, j, k) ==
    IF k < 1 THEN <<>>
    ELSE (IF IsAncestor(joints, j, k) THEN <<k>> ELSE <<>>) \o listRelativesAD(joints, j, k - 1)

\* The sort without reverse=True: fewest descendants first
RECURSIVE SortByDescendantsAscending(_, _, _)
SortByDescendantsAscending(joints, seq, c) ==
    IF c < 0 THEN <<>>
    ELSE SortByDescendantsAscending(joints, seq, c - 1)
            \o SelectSeq(seq, LAMBDA j : Cardinality(Descendants(joints, j)) = c)

\* sorted(seq, key=number of descendants, reverse=True): a stable sort.
RECURSIVE SortByDescendants(_, _, _)
SortByDescendants(joints, seq, c) ==
    IF c < 0 THEN <<>>
    ELSE SelectSeq(seq, LAMBDA j : Cardinality(Descendants(joints, j)) = c)
            \o SortByDescendants(joints, seq, c - 1)

IndexOf(seq, x) == CHOOSE i \in 1..Len(seq) : seq[i] = x

InSeq(seq, x) == \E i \in 1..Len(seq) : seq[i] = x

\* The snapshot of a mesh whose history is already deleted
getSkinWeightsAfterDelete(mesh) == [v \in MeshVerts |-> <<>>]

\* getSkinWeights: vertex -> (influence name -> weight)
getSkinWeights(mesh) ==
    [v \in MeshVerts |->
        [i \in 1..Len(mesh.skin.infl) |-> <<mesh.skin.infl[i], mesh.skin.weights[v][i]>>]]

\* The weight the snapshot holds for an influence, 0 when it holds none.
SnapshotWeight(pairs, joint) ==
    IF \E i \in 1..Len(pairs) : pairs[i][1] = joint
    THEN pairs[CHOOSE i \in 1..Len(pairs) : pairs[i][1] = joint][2]
    ELSE 0

-----------------------------------------------------------------------------
(* Bind-pose rescale: the operations *)

NoLocals == [influences |-> <<>>, skeleton |-> <<>>, meshInfluenceWeights |-> <<>>, toConnect |-> <<>>]

\* A scene and one call of scaleMesh or scaleRig; the other operations are idle.
InitScale ==
    /\ \E p \in Forests, infl \in InfluenceLists, second \in {<<>>, <<1>>},
          conns \in ConnectionChoices :
          LET joints == [j \in Joints |-> JointOf(p, j)]
          IN  scene = [joints |-> joints,
                       meshes |-> <<MeshOf(joints, infl), MeshOf(joints, second)>>,
                       conns  |-> conns]
    /\ scene0 = scene
    /\ \E sc \in ScaleVals :
          \/ call = [op |-> "scaleMesh", scale |-> sc, meshes |-> <<1>>, joints |-> <<>>]
          \/ \E ms \in {<<1>>, <<1, 2>>} :
                call = [op |-> "scaleRig", scale |-> sc, meshes |-> ms,
                        joints |-> [j \in Joints |-> j]]
    /\ spc = "start"
    /\ sidx = 1
    /\ slocal = NoLocals
    /\ serr = ""
    /\ codecName = <<>>
    /\ codecCur = <<>>
    /\ codecOps = <<"idle">>
    /\ meshes = <<>>
    /\ nif = <<>>
    /\ nif0 = <<>>
    /\ rcalls = <<>>
    /\ rpc = "idle"
    /\ rmesh = 0
    /\ rblock = 0
    /\ rvert = 0
    /\ rlocal = <<>>
    /\ rerr = ""
    /\ tool = <<>>
    /\ xscene = <<>>
    /\ xscene0 = <<>>
    /\ xpc = "idle"
    /\ xidx = 0
    /\ xlog = <<>>
    /\ xerr = ""
    /\ phys = <<>>
    /\ plast = <<>>
    /\ pcount = 0

\* scaleMesh's guard with the comparison against zero instead of 0.001
ScaleTooSmallZero(scale) == scale < 0

\* if scale < 0.001: raise ValueError('Scale is too small.')
ScaleTooSmall(scale) == scale < ScaleEpsilon

Raise(e) ==
    /\ spc' = "error"
    /\ serr' = e

\* scaleMesh, up to the joint loop: the early return, the guard, the skin
\* cluster lookup and the two sorts.
ScaleMeshBegin ==
    /\ spc = "start"
    /\ call.op = "scaleMesh"
    /\ LET mesh == scene.meshes[call.meshes[1]]
           infl == SortByDescendants(scene.joints, mesh.skin.infl, NumJoints)
           desc == listRelativesAD(scene.joints, infl[1], NumJoints)
       IN  IF call.scale = Unit
           THEN spc' = "done" /\ UNCHANGED <<serr, slocal>>
           ELSE IF ScaleTooSmall(call.scale)
           THEN Raise("ValueError: Scale is too small.") /\ UNCHANGED slocal
           ELSE IF mesh.skin = NoSkin
           THEN Raise("IndexError") /\ UNCHANGED slocal
           ELSE IF desc = <<>>
           THEN Raise("TypeError") /\ UNCHANGED slocal
           ELSE /\ slocal' = [slocal EXCEPT
                                !.influences = infl,
                                !.skeleton = SortByDescendants(scene.joints, <<infl[1]>> \o desc, NumJoints)]
                /\ spc' = "joints"
                /\ UNCHANGED serr
    /\ UNCHANGED <<scene, scene0, call, sidx, codecVars, remapVars, exportVars, physVars, toolVars>>

\* One iteration of scaleMesh's joint loop.
ScaleMeshJoint ==
    /\ spc = "joints"
    /\ LET m == call.meshes[1]
           joint == slocal.skeleton[sidx]
           old == scene.joints[joint]
           joints == [scene.joints EXCEPT ![joint] =
                        [old EXCEPT !.t = VMul(old.t, call.scale),
                                    !.radius = Mul(old.radius, call.scale)]]
           skin == scene.meshes[m].skin
           bindPre == IF InSeq(slocal.influences, joint)
                      THEN [skin.bindPre EXCEPT ![IndexOf(skin.infl, joint)] = InverseWorld(joints, joint)]
                      ELSE skin.bindPre
       IN  scene' = [scene EXCEPT !.joints = joints, !.meshes[m].skin.bindPre = bindPre]
    /\ IF sidx = Len(slocal.skeleton)
       THEN spc' = "meshscale" /\ sidx' = 1
       ELSE spc' = spc /\ sidx' = sidx + 1
    /\ UNCHANGED <<scene0, call, slocal, serr, codecVars, remapVars, exportVars, physVars, toolVars>>

\* scaleMesh's last loop: the mesh scale attributes are unlocked, set and locked.
ScaleMeshAttr ==
    /\ spc = "meshscale"
    /\ scene' = [scene EXCEPT !.meshes[call.meshes[1]].sattr = call.scale,
                              !.meshes[call.meshes[1]].slock = TRUE]
    /\ spc' = "done"
    /\ UNCHANGED <<scene0, call, sidx, slocal, serr, codecVars, remapVars, exportVars, physVars, toolVars>>

\* One iteration of scaleRig's mesh loop: snapshot, delete history, scale, freeze.
ScaleRigMesh ==
    /\ spc \in {"start", "meshes"}
    /\ call.op = "scaleRig"
    /\ LET m == call.meshes[sidx]
           mesh == scene.meshes[m]
       IN  IF mesh.skin = NoSkin
           THEN Raise("TypeError") /\ UNCHANGED <<scene, slocal, sidx>>
           ELSE /\ slocal' = [slocal EXCEPT !.meshInfluenceWeights =
                                Append(@, [mesh |-> m, influences |-> mesh.skin.infl,
                                           weights |-> getSkinWeights(mesh)])]
                /\ scene' = [scene EXCEPT
                                !.meshes[m].skin = NoSkin,
                                !.meshes[m].points = [v \in MeshVerts |-> VMul(mesh.points[v], call.scale)]]
                /\ IF sidx = Len(call.meshes)
                   THEN spc' = "rigjoints" /\ sidx' = 1
                   ELSE spc' = "meshes" /\ sidx' = sidx + 1
                /\ UNCHANGED serr
    /\ UNCHANGED <<scene0, call, codecVars, remapVars, exportVars, physVars, toolVars>>

\* One iteration of scaleRig's joint loop: disconnect, then multiply.
ScaleRigJoint ==
    /\ spc = "rigjoints"
    /\ LET joint == call.joints[sidx]
           old == scene.joints[joint]
           res == DisconnectAll(JointPlugPairs(scene.conns, joint, 1), scene.conns, slocal.toConnect)
       IN  /\ slocal' = [slocal EXCEPT !.toConnect = res.toConnect]
           /\ IF res.ok
              THEN /\ scene' = [scene EXCEPT
                                  !.conns = res.conns,
                                  !.joints[joint] = [old EXCEPT !.t = VMul(old.t, call.scale),
                                                                !.radius = Mul(old.radius, call.scale)]]
                   /\ IF sidx = Len(call.joints)
                      THEN spc' = "load" /\ sidx' = 1
                      ELSE spc' = spc /\ sidx' = sidx + 1
                   /\ UNCHANGED serr
              ELSE /\ scene' = [scene EXCEPT !.conns = res.conns]
                   /\ Raise("RuntimeError")
                   /\ UNCHANGED sidx
    /\ UNCHANGED <<scene0, call, codecVars, remapVars, exportVars, physVars, toolVars>>

\* The influence lists cmds.skinCluster(mesh, influences) may give the new
\* cluster: the joints passed, in the order passed or reversed, alone or
\* followed by their descendants (no toSelectedBones flag is passed).
RebuiltInfluenceLists(joints, infl) ==
    LET reversed == [i \in 1..Len(infl) |-> infl[Len(infl) + 1 - i]]
        below == SelectSeq([k \in 1..Len(joints) |-> k],
                           LAMBDA k : ~InSeq(infl, k) /\ \E i \in 1..Len(infl) : IsAncestor(joints, infl[i], k))
    IN  {infl, reversed, infl \o below}

\* One iteration of scaleRig's load loop: a new skin cluster, then setSkinWeights
\* (all weights pruned to 0, then the snapshot's weights set by influence name).
ScaleRigLoad ==
    /\ spc = "load"
    /\ LET snap == slocal.meshInfluenceWeights[sidx]
       IN  \E infl \in RebuiltInfluenceLists(scene.joints, snap.influences) :
              scene' = [scene EXCEPT !.meshes[snap.mesh].skin =
                          [infl    |-> infl,
                           weights |-> [v \in MeshVerts |->
                                          [i \in 1..Len(infl) |-> SnapshotWeight(snap.weights[v], infl[i])]],
                           bindPre |-> [i \in 1..Len(infl) |-> InverseWorld(scene.joints, infl[i])]]]
    /\ IF sidx = Len(slocal.meshInfluenceWeights)
       THEN /\ sidx' = 1
            /\ spc' = IF slocal.toConnect = <<>> THEN "done" ELSE "reconnect"
       ELSE spc' = spc /\ sidx' = sidx + 1
    /\ UNCHANGED <<scene0, call, slocal, serr, codecVars, remapVars, exportVars, physVars, toolVars>>

\* One iteration of scaleRig's reconnect loop.
ScaleRigReconnect ==
    /\ spc = "reconnect"
    /\ scene' = [scene EXCEPT !.conns = @ \cup {slocal.toConnect[sidx]}]
    /\ IF sidx = Len(slocal.toConnect)
       THEN spc' = "done" /\ sidx' = 1
       ELSE spc' = spc /\ sidx' = sidx + 1
    /\ UNCHANGED <<scene0, call, slocal, serr, codecVars, remapVars, exportVars, physVars, toolVars>>

NextScale ==
    \/ ScaleMeshBegin
    \/ ScaleMeshJoint
    \/ ScaleMeshAttr
    \/ ScaleRigMesh
    \/ ScaleRigJoint
    \/ ScaleRigLoad
    \/ ScaleRigReconnect


-----------------------------------------------------------------------------
(* The nif weight remap: data *)

\* for i in range(4): the weight slots of a partition vertex
NumWeightsPerVertex == 4

\* weight > 0.001
WeightEpsilon == 10

MaxInfl == 5

MaxNifVerts == 4

\* Bone names as the nif file spells them.
BoneNames ==
    << <<"A">>, <<"B">>, <<"C", " ", "1">>, <<"D", "[", "2", "]">>, <<"E">>, <<"F">>,
       <<"a", " ", "b">>, <<"a", "_", "s", "_", "b">> >>

\* skin_instance.bones, as positions in BoneNames
BoneListChoices == {<<1, 2, 3, 4, 5, 6>>, <<6, 5, 4, 3, 2, 1>>, <<2, 1>>, <<1, 7, 8>>}

\* The influence names of the Maya skin cluster.
MayaBone(k) == toMayaName(BoneNames[k])

\* An ordered dict is a sequence of <<key, value>> pairs with distinct keys.
Keys(d) == {d[i][1] : i \in 1..Len(d)}

HasKey(d, k) == \E i \in 1..Len(d) : d[i][1] = k

Get(d, k) == d[CHOOSE i \in 1..Len(d) : d[i][1] = k][2]

\* d[k] = v: a new key goes to the end, an old key keeps its place.
Put(d, k, v) ==
    IF HasKey(d, k)
    THEN [i \in 1..Len(d) |-> IF d[i][1] = k THEN <<k, v>> ELSE d[i]]
    ELSE Append(d, <<k, v>>)

\* Influence weights of one Maya vertex: bones 1..n in order, the weight of
\* position q replaced by w (q = 0: no position replaced).
WeightDict(n, q, w) ==
    [i \in 1..n |-> <<MayaBone(i), IF i = q THEN w ELSE 1000 * (i + 1)>>]

WeightDicts ==
    {WeightDict(n, 0, 0) : n \in 1..MaxInfl}
        \cup {WeightDict(n, n, w) : n \in 1..MaxInfl,
                                    w \in {WeightEpsilon - 1, WeightEpsilon, WeightEpsilon + 1}}
        \cup {WeightDict(n, 1, WeightEpsilon) : n \in 2..MaxInfl}
        \cup {WeightDict(1, 0, 0) \o << <<(<<"T", "a", "i", "l">>), w>> >> : w \in {WeightEpsilon, 5000}}
        \cup {<< <<MayaBone(1), 4000>>, <<MayaBone(8), 6000>> >>}

\* The bone list of the skin instance with the table choice of the blocks.
SkinChoices ==
    {<<bones, 1>> : bones \in BoneListChoices} \cup {<<(<<1, 2, 3, 4, 5, 6>>), t>> : t \in 1..3}

\* Faces of the Maya mesh: per face the vertex ids in face order.
FaceChoices ==
    {<< <<1, 2, 3>> >>,
     << <<1, 2, 3>>, <<1, 3, 4>> >>,
     << <<1, 2, 3>>, <<3, 2, 1>> >>,
     << <<2, 3, 1>>, <<4, 5, 1>> >>}

\* The vertices of a face or triangle list.
UsedVerts(faces) == UNION {Range(faces[i]) : i \in 1..Len(faces)}

Injective(f) == \A i, k \in DOMAIN f : i # k => f[i] # f[k]

\* Triangle i of the nif is the split copy of face i of the Maya mesh: corner
\* j of the triangle is a copy of corner j of the face, and a nif vertex is a
\* copy of one Maya vertex only.
WellFormed(faces, tris) ==
    /\ Len(tris) = Len(faces)
    /\ \A i \in 1..Len(faces) : Len(tris[i]) = Len(faces[i]) /\ Injective(tris[i])
    /\ \A i, k \in 1..Len(faces) : \A j \in 1..3, l \in 1..3 :
          tris[i][j] = tris[k][l] => faces[i][j] = faces[k][l]

TriangleLists(faces) ==
    {t \in [1..Len(faces) -> [1..3 -> 1..MaxNifVerts]] : WellFormed(faces, t)}

RECURSIVE SortedSeq(_)
SortedSeq(S) ==
    IF S = {} THEN <<>>
    ELSE LET m == CHOOSE x \in S : \A y \in S : x <= y IN <<m>> \o SortedSeq(S \ {m})

\* How the nif vertices are spread over partition blocks.
VertexMaps(tris) ==
    LET all == SortedSeq(UsedVerts(tris))
        h == Len(all) \div 2
    IN  {<<all>>,
         <<SubSeq(all, h + 1, Len(all)), SubSeq(all, 1, h + 1)>>}

\* A partition block's local bone table before the remap (global bone indices).
TableChoices == << <<0>>, <<1, 0>>, <<1>> >>

BlockOf(vmap, table, b) ==
    [bones          |-> table,
     vertex_map     |-> vmap,
     bone_indices   |-> [pv \in 1..Len(vmap) |-> [i \in 1..NumWeightsPerVertex |-> 0]],
     vertex_weights |-> [pv \in 1..Len(vmap) |->
                            [i \in 1..NumWeightsPerVertex |-> IF i = 1 THEN Unit - 3 * (pv + b) ELSE pv + b]]]

TriShapeOf(tris, bones, vmaps, t) ==
    [name      |-> <<"s", "h", "a", "p", "e">>,
     triangles |-> tris,
     bones     |-> [i \in 1..Len(bones) |-> BoneNames[bones[i]]],
     blocks    |-> [b \in 1..Len(vmaps) |->
                      BlockOf(vmaps[b], TableChoices[1 + ((t + b) % Len(TableChoices))], b)]]

\* Weights that follow the vertex id: two influences per vertex.
PlainWeights(faces) ==
    [v \in UsedVerts(faces) |->
        << <<MayaBone(1 + (v % 2)), 6000>>, <<MayaBone(2 - (v % 2)), 4000>> >>]

MeshOfFaces(faces, weights) ==
    [name    |-> <<"|", "g", "|", "m">>,
     faces   |-> faces,
     weights |-> weights]

-----------------------------------------------------------------------------
(* The nif weight remap: fixNifMeshes *)

NoRemapLocals == [tri |-> 0, mapping |-> <<>>, bone_indices |-> <<>>, nif_weights |-> <<>>]

\* Either any well-formed geometry with plain weights, or one triangle whose
\* vertices carry any of the weight dicts over any bone list.
\* The calls of fixNifMeshes on the same data
MaxRemapCalls == 2

\* The extension without the membership test
ExtendedBonesAll(table, numBones) == table \o [i \in 1..numBones |-> i - 1]

InitRemap ==
    /\ \E faces \in FaceChoices :
       \E tris \in TriangleLists(faces) :
       \E vmaps \in VertexMaps(tris) :
          \/ /\ meshes = << MeshOfFaces(faces, PlainWeights(faces)) >>
             /\ nif = << TriShapeOf(tris, <<1, 2, 3, 4, 5, 6>>, vmaps, 1) >>
          \/ /\ Len(faces) = 1
             /\ tris = << <<1, 2, 3>> >>
             /\ \E w1, w2 \in WeightDicts, skin \in SkinChoices :
                   /\ meshes = << MeshOfFaces(faces, <<w1, w2, w1>>) >>
                   /\ nif = << TriShapeOf(tris, skin[1], vmaps, skin[2]) >>
    /\ nif0 = nif
    /\ rcalls = <<>>
    /\ rpc = "find"
    /\ rmesh = 1
    /\ rblock = 1
    /\ rvert = 1
    /\ rlocal = NoRemapLocals
    /\ rerr = ""
    /\ tool = <<>>
    /\ codecName = <<>>
    /\ codecCur = <<>>
    /\ codecOps = <<"idle">>
    /\ scene = <<>>
    /\ scene0 = <<>>
    /\ call = <<>>
    /\ spc = "idle"
    /\ sidx = 0
    /\ slocal = <<>>
    /\ serr = ""
    /\ xscene = <<>>
    /\ xscene0 = <<>>
    /\ xpc = "idle"
    /\ xidx = 0
    /\ xlog = <<>>
    /\ xerr = ""
    /\ phys = <<>>
    /\ plast = <<>>
    /\ pcount = 0

\* A list of two scene meshes and a nif with a tri shape for each, in the
\* order of the list: the second mesh has one face, or as many faces as the
\* first; its vertices carry three influences each.
InitRemapMeshes ==
    /\ \E faces \in {f \in FaceChoices : Len(f) = 2}, other \in FaceChoices :
       \E tris \in TriangleLists(faces) :
       \E vmaps \in VertexMaps(tris) :
          /\ Len(other) = 1 \/ other = faces
          /\ meshes = << MeshOfFaces(faces, PlainWeights(faces)),
                         [MeshOfFaces(other, [v \in UsedVerts(other) |-> WeightDict(3, 0, 0)])
                             EXCEPT !.name = <<"|", "g", "|", "n">>] >>
          /\ nif = << TriShapeOf(tris, <<1, 2, 3, 4, 5, 6>>, vmaps, 1),
                      TriShapeOf(other, <<1, 2, 3, 4, 5, 6>>, <<SortedSeq(UsedVerts(other))>>, 2) >>
    /\ nif0 = nif
    /\ rcalls = <<>>
    /\ rpc = "find"
    /\ rmesh = 1
    /\ rblock = 1
    /\ rvert = 1
    /\ rlocal = NoRemapLocals
    /\ rerr = ""
    /\ tool = <<>>
    /\ codecName = <<>>
    /\ codecCur = <<>>
    /\ codecOps = <<"idle">>
    /\ scene = <<>>
    /\ scene0 = <<>>
    /\ call = <<>>
    /\ spc = "idle"
    /\ sidx = 0
    /\ slocal = <<>>
    /\ serr = ""
    /\ xscene = <<>>
    /\ xscene0 = <<>>
    /\ xpc = "idle"
    /\ xidx = 0
    /\ xlog = <<>>
    /\ xerr = ""
    /\ phys = <<>>
    /\ plast = <<>>
    /\ pcount = 0

RemapRaise(e) ==
    /\ rpc' = "error"
    /\ rerr' = e

\* findTriShapeByPolygons: the first tri shape with as many triangles as the
\* mesh has polygons, 0 for None.
findTriShapeByPolygons(mesh, data) ==
    LET same == {k \in 1..Len(data) : Len(data[k].triangles) = Len(mesh.faces)}
    IN  IF same = {} THEN 0 ELSE CHOOSE k \in same : \A l \in same : k <= l

\* The mesh is matched to a tri shape, which takes the mesh's name.
RemapFindShape ==
    /\ rpc = "find"
    /\ LET mesh == meshes[rmesh]
           k == findTriShapeByPolygons(mesh, nif)
       IN  IF k = 0
           THEN RemapRaise("AttributeError") /\ UNCHANGED <<nif, rlocal>>
           ELSE /\ nif' = [nif EXCEPT ![k].name = LastComponent(mesh.name)]
                /\ rlocal' = [NoRemapLocals EXCEPT !.tri = k]
                /\ rpc' = "map"
                /\ UNCHANGED rerr
    /\ UNCHANGED <<meshes, nif0, rcalls, rmesh, rblock, rvert, codecVars, scaleVars, exportVars, physVars, toolVars>>

\* zip(fnMesh.getPolygonVertices(i), getTriangleVertices(triangles[i])) with
\* the corners of the triangle taken in reverse
ZipPairsReversed(faces, tris) ==
    {<<faces[i][j], tris[i][Len(tris[i]) + 1 - j]>> : i \in 1..Len(faces), j \in 1..3}

\* The (maya_vertex, nif_vertex) pairs the two loops visit.
ZipPairs(faces, tris) ==
    UNION {{<<faces[i][j], tris[i][j]>> :
                j \in 1..(IF Len(faces[i]) < Len(tris[i]) THEN Len(faces[i]) ELSE Len(tris[i]))} :
           i \in 1..Len(faces)}

\* maya_to_nif_vertex_mapping: Maya vertex -> set of nif vertices
BuildMapping(faces, tris) ==
    LET pairs == ZipPairs(faces, tris)
    IN  [m \in {pr[1] : pr \in pairs} |-> {pr[2] : pr \in {q \in pairs : q[1] = m}}]

RemapBuildMapping ==
    /\ rpc = "map"
    /\ rlocal' = [rlocal EXCEPT !.mapping =
                    BuildMapping(meshes[rmesh].faces, nif[rlocal.tri].triangles)]
    /\ rpc' = "weights"
    /\ UNCHANGED <<meshes, nif, nif0, rcalls, rmesh, rblock, rvert, rerr, codecVars, scaleVars, exportVars, physVars, toolVars>>

\* bone_indices[toMayaName(bone.name)] = index, index counted from 0
BoneIndices(bones) ==
    LET F[i \in 0..Len(bones)] ==
            IF i = 0 THEN <<>> ELSE Put(F[i - 1], toMayaName(bones[i]), i - 1)
    IN  F[Len(bones)]

\* The filter with >= in place of >
AboveEpsilonInclusive(weight) == weight >= WeightEpsilon

\* if weight > 0.001
AboveEpsilon(weight) == weight > WeightEpsilon

\* {k: w for k, w in d.items() if w > 0.001}
Pruned(d) == SelectSeq(d, LAMBDA pr : AboveEpsilon(pr[2]))

\* {bone_indices[bone]: weight for bone, weight in d.items()}
Resolved(d, boneIndices) ==
    LET F[i \in 0..Len(d)] ==
            IF i = 0 THEN <<>> ELSE Put(F[i - 1], Get(boneIndices, d[i][1]), d[i][2])
    IN  F[Len(d)]

\* The Maya vertices whose conversion raises KeyError: not in the vertex
\* mapping, or with a surviving influence whose bone the skin instance lacks.
Unresolvable(weights, mapping, boneIndices) ==
    {v \in DOMAIN weights :
        \/ v \notin DOMAIN mapping
        \/ \E pr \in Range(Pruned(weights[v])) : ~HasKey(boneIndices, pr[1])}

\* nif_weights: nif vertex -> resolved weights of the Maya vertex it copies
\* (the Maya vertex visited last, when several map to it).
NifWeights(weights, mapping, boneIndices) ==
    LET nifVerts == UNION {mapping[v] : v \in DOMAIN weights}
        Last(n) == CHOOSE v \in DOMAIN weights :
                      /\ n \in mapping[v]
                      /\ \A u \in DOMAIN weights : n \in mapping[u] => u <= v
    IN  [n \in nifVerts |-> Resolved(Pruned(weights[Last(n)]), boneIndices)]

RemapConvertWeights ==
    /\ rpc = "weights"
    /\ LET shape == nif[rlocal.tri]
           bi == BoneIndices(shape.bones)
           weights == meshes[rmesh].weights
       IN  IF Unresolvable(weights, rlocal.mapping, bi) # {}
           THEN /\ RemapRaise("KeyError: bone_indices[bone]")
                /\ rlocal' = [rlocal EXCEPT !.bone_indices = bi]
           ELSE /\ rlocal' = [rlocal EXCEPT !.bone_indices = bi,
                                            !.nif_weights = NifWeights(weights, rlocal.mapping, bi)]
                /\ rpc' = "block"
                /\ UNCHANGED rerr
    /\ UNCHANGED <<meshes, nif, nif0, rcalls, rmesh, rblock, rvert, codecVars, scaleVars, exportVars, physVars, toolVars>>

\* The extension with the missing indices put in front
ExtendedBonesInFront(table, numBones) ==
    SelectSeq([i \in 1..numBones |-> i - 1], LAMBDA g : ~InSeq(table, g)) \o table

\* The extension with the membership test inverted
ExtendedBonesInverted(table, numBones) ==
    table \o SelectSeq([i \in 1..numBones |-> i - 1], LAMBDA g : InSeq(table, g))

\* The block's bone table with the missing skin instance indices appended.
ExtendedBones(table, numBones) ==
    table \o SelectSeq([i \in 1..numBones |-> i - 1], LAMBDA g : ~InSeq(table, g))

\* The slot is given the skin instance index instead of the block's index
PartitionBoneIndexGlobal(table, g) == g

\* partition_bone_indices = {index: i for i, index in enumerate(bones)}
PartitionBoneIndex(table, g) ==
    (CHOOSE i \in 1..Len(table) : table[i] = g /\ \A k \in 1..Len(table) : table[k] = g => k <= i) - 1

RemapBlockBones ==
    /\ rpc = "block"
    /\ LET k == rlocal.tri
           block == nif[k].blocks[rblock]
       IN  nif' = [nif EXCEPT ![k].blocks[rblock].bones = ExtendedBones(block.bones, Len(nif[k].bones))]
    /\ rpc' = "vertex"
    /\ rvert' = 1
    /\ UNCHANGED <<meshes, nif0, rcalls, rmesh, rblock, rlocal, rerr, codecVars, scaleVars, exportVars, physVars, toolVars>>

\* The loop stopping silently at the slot capacity
RECURSIVE WriteSlotsTruncating(_, _, _, _, _)
WriteSlotsTruncating(pairs, i, table, bi, vw) ==
    IF pairs = <<>> \/ i >= NumWeightsPerVertex THEN [bi |-> bi, vw |-> vw, err |-> ""]
    ELSE IF ~InSeq(table, Head(pairs)[1])
    THEN [bi |-> bi, vw |-> vw, err |-> "KeyError: Failed to find bone index"]
    ELSE WriteSlotsTruncating(Tail(pairs), i + 1, table,
                    [bi EXCEPT ![i + 1] = PartitionBoneIndex(table, Head(pairs)[1])],
                    [vw EXCEPT ![i + 1] = Head(pairs)[2]])

\* The loop over the surviving influences of one vertex, from slot i (counted
\* from 0): the slot must exist and the bone must be in the block's table.
RECURSIVE WriteSlots(_, _, _, _, _)
WriteSlots(pairs, i, table, bi, vw) ==
    IF pairs = <<>> THEN [bi |-> bi, vw |-> vw, err |-> ""]
    ELSE IF i >= NumWeightsPerVertex THEN [bi |-> bi, vw |-> vw, err |-> "IndexError"]
    ELSE IF ~InSeq(table, Head(pairs)[1])
    THEN [bi |-> bi, vw |-> vw, err |-> "KeyError: Failed to find bone index"]
    ELSE WriteSlots(Tail(pairs), i + 1, table,
                    [bi EXCEPT ![i + 1] = PartitionBoneIndex(table, Head(pairs)[1])],
                    [vw EXCEPT ![i + 1] = Head(pairs)[2]])

\* The iteration with the 4 slots cleared to the block's num_bones
PatchVertexClearedToCount(block, vertex, nifWeights) ==
    LET clearedBi == [i \in 1..NumWeightsPerVertex |-> Len(block.bones)]
        clearedVw == [i \in 1..NumWeightsPerVertex |-> 0]
    IN  IF vertex \notin DOMAIN nifWeights
        THEN [bi |-> clearedBi, vw |-> clearedVw, err |-> "KeyError: nif_weights[vertex]"]
        ELSE WriteSlots(Pruned(nifWeights[vertex]), 0, block.bones, clearedBi, clearedVw)

\* The iteration without the clearing of the 4 slots
PatchVertexUncleared(block, vertex, nifWeights) ==
    LET pv == CHOOSE q \in 1..Len(block.vertex_map) : block.vertex_map[q] = vertex
    IN  IF vertex \notin DOMAIN nifWeights
        THEN [bi |-> block.bone_indices[pv], vw |-> block.vertex_weights[pv],
              err |-> "KeyError: nif_weights[vertex]"]
        ELSE WriteSlots(Pruned(nifWeights[vertex]), 0, block.bones,
                        block.bone_indices[pv], block.vertex_weights[pv])

\* One iteration of the partition vertex loop: clear the 4 slots, then write.
PatchVertex(block, vertex, nifWeights) ==
    LET clearedBi == [i \in 1..NumWeightsPerVertex |-> block.bones[1]]
        clearedVw == [i \in 1..NumWeightsPerVertex |-> 0]
    IN  IF vertex \notin DOMAIN nifWeights
        THEN [bi |-> clearedBi, vw |-> clearedVw, err |-> "KeyError: nif_weights[vertex]"]
        ELSE WriteSlots(Pruned(nifWeights[vertex]), 0, block.bones, clearedBi, clearedVw)

RemapVertex ==
    /\ rpc = "vertex"
    /\ LET k == rlocal.tri
           block == nif[k].blocks[rblock]
           res == PatchVertex(block, block.vertex_map[rvert], rlocal.nif_weights)
       IN  /\ nif' = [nif EXCEPT ![k].blocks[rblock].bone_indices[rvert] = res.bi,
                                 ![k].blocks[rblock].vertex_weights[rvert] = res.vw]
           /\ IF res.err # ""
              THEN RemapRaise(res.err) /\ UNCHANGED <<rmesh, rblock, rvert>>
              ELSE /\ UNCHANGED rerr
                   /\ IF rvert < Len(block.vertex_map)
                      THEN rvert' = rvert + 1 /\ UNCHANGED <<rpc, rblock, rmesh>>
                      ELSE IF rblock < Len(nif[k].blocks)
                      THEN rpc' = "block" /\ rblock' = rblock + 1 /\ rvert' = 1 /\ UNCHANGED rmesh
                      ELSE IF rmesh < Len(meshes)
                      THEN rpc' = "find" /\ rmesh' = rmesh + 1 /\ rblock' = 1 /\ rvert' = 1
                      ELSE rpc' = "done" /\ UNCHANGED <<rmesh, rblock, rvert>>
    /\ UNCHANGED <<meshes, nif0, rcalls, rlocal, codecVars, scaleVars, exportVars, physVars, toolVars>>

\* fixNifMeshes(data, meshes) is called again on the data it has patched.
RemapCallAgain ==
    /\ rpc = "done"
    /\ Len(rcalls) + 1 < MaxRemapCalls
    /\ rcalls' = Append(rcalls, nif0)
    /\ nif0' = nif
    /\ rpc' = "find"
    /\ rmesh' = 1
    /\ rblock' = 1
    /\ rvert' = 1
    /\ rlocal' = NoRemapLocals
    /\ UNCHANGED <<meshes, nif, rerr, codecVars, scaleVars, exportVars, physVars, toolVars>>

NextRemap ==
    \/ RemapCallAgain
    \/ RemapFindShape
    \/ RemapBuildMapping
    \/ RemapConvertWeights
    \/ RemapBlockBones
    \/ RemapVertex

-----------------------------------------------------------------------------
(* The skin export: exportSkin *)

MaxExportMeshes == 2

\* if len(joints) > 4:  # Skyrim max influences
SkyrimMaxInfluences == 4

\* ignoreBelow=0.000001, as the number of such steps in one weight unit
IgnoreBelowPerUnit == (1000 * 1000) \div Unit

\* str.endswith
EndsWith(name, suffix) ==
    /\ Len(suffix) <= Len(name)
    /\ SubSeq(name, Len(name) - Len(suffix) + 1, Len(name)) = suffix

RbSuffix == <<"_", "r", "b">>

\* A mesh shape under the export mesh: the vertex count of each polygon, the
\* influences of its skin cluster (none: not skinned) and, per vertex, the
\* weight of each influence.
ExportMesh(faces, influences, weights) ==
    [faces      |-> faces,
     skinned    |-> influences # <<>>,
     influences |-> influences,
     weights    |-> weights,
     colors     |-> "painted"]

ExportJoint(k) == <<"j", "0", "1", "2", "3", "4", "5", "6">>[k + 1]

ExportInfluences(n) == [i \in 1..n |-> <<"j", ExportJoint(i)>>]

\* One vertex with its first n influences weighted, one vertex on the first.
ExportWeights(total, n) ==
    << [i \in 1..total |-> IF i <= n THEN Unit \div n ELSE 0],
       [i \in 1..total |-> IF i = 1 THEN Unit ELSE 0] >>

\* One vertex with its first n influences weighted, the n-th with 0.0005,
\* one vertex on the first.
ExportWeightsWithSmall(total, n) ==
    << [i \in 1..total |-> IF i = 1 THEN Unit - 5 - (n - 2) * 1000
                           ELSE IF i < n THEN 1000 ELSE IF i = n THEN 5 ELSE 0],
       [i \in 1..total |-> IF i = 1 THEN Unit ELSE 0] >>

ExportMeshChoices ==
    {ExportMesh(<<3, 3>>, ExportInfluences(2), ExportWeights(2, 2)),
     ExportMesh(<<3>>, ExportInfluences(SkyrimMaxInfluences + 1),
                ExportWeights(SkyrimMaxInfluences + 1, SkyrimMaxInfluences)),
     ExportMesh(<<3, 4>>, ExportInfluences(2), ExportWeights(2, 1)),
     ExportMesh(<<3>>, ExportInfluences(SkyrimMaxInfluences + 1),
                ExportWeights(SkyrimMaxInfluences + 1, SkyrimMaxInfluences + 1)),
     ExportMesh(<<3>>, ExportInfluences(1) \o << <<"j", "1">> \o RbSuffix >>, ExportWeights(2, 2)),
     ExportMesh(<<3>>, ExportInfluences(SkyrimMaxInfluences + 1),
                ExportWeightsWithSmall(SkyrimMaxInfluences + 1, SkyrimMaxInfluences + 1)),
     ExportMesh(<<3>>, ExportInfluences(SkyrimMaxInfluences),
                ExportWeightsWithSmall(SkyrimMaxInfluences, SkyrimMaxInfluences)),
     ExportMesh(<<4>>, <<>>, <<>>)}

\* The scene exportSkin runs in: whether the project mesh exists, whether the
\* skin path is set, the root joint ("ok", "missing", or "leaf" for a root
\* without joints below it), and the mesh shapes in the order of list(set()).
InitExport ==
    /\ \E n \in 1..MaxExportMeshes :
       \E ms \in [1..n -> ExportMeshChoices] :
       \E ex, pathSet \in BOOLEAN, root \in {"ok", "missing", "leaf"} :
          /\ (~ex \/ ~pathSet \/ root # "ok") => n = 1
          /\ xscene = [exists |-> ex, pathSet |-> pathSet, root |-> root, meshes |-> ms]
    /\ xscene0 = xscene
    /\ xpc = "start"
    /\ xidx = 1
    /\ xlog = <<>>
    /\ xerr = ""
    /\ codecName = <<>>
    /\ codecCur = <<>>
    /\ codecOps = <<"idle">>
    /\ scene = <<>>
    /\ scene0 = <<>>
    /\ call = <<>>
    /\ spc = "idle"
    /\ sidx = 0
    /\ slocal = <<>>
    /\ serr = ""
    /\ meshes = <<>>
    /\ nif = <<>>
    /\ nif0 = <<>>
    /\ rcalls = <<>>
    /\ rpc = "idle"
    /\ rmesh = 0
    /\ rblock = 0
    /\ rvert = 0
    /\ rlocal = <<>>
    /\ rerr = ""
    /\ tool = <<>>
    /\ phys = <<>>
    /\ plast = <<>>
    /\ pcount = 0

\* meshes = [mesh for mesh in meshes if getSkinCluster(mesh) is not None]
SkinnedMeshes(sc) == SelectSeq([i \in 1..Len(sc.meshes) |-> i], LAMBDA i : sc.meshes[i].skinned)

ExportRaise(e) ==
    /\ xpc' = "error"
    /\ xerr' = e

\* The statements before the validation loop.
ExportBegin ==
    /\ xpc = "start"
    /\ IF ~xscene.exists
       THEN ExportRaise("Exception: Project mesh is not unique or does not exist")
       ELSE IF ~xscene.pathSet
       THEN ExportRaise("Exception: Invalid skin path")
       ELSE IF xscene.root = "missing"
       THEN ExportRaise("Exception: Could not find unique root joint")
       ELSE IF xscene.root = "leaf"
       THEN ExportRaise("TypeError")
       ELSE /\ xpc' = IF SkinnedMeshes(xscene) = <<>> THEN "chunk" ELSE "validate"
            /\ UNCHANGED xerr
    /\ UNCHANGED <<xscene, xscene0, xidx, xlog, codecVars, scaleVars, remapVars, physVars, toolVars>>

\* The query with ignoreBelow=0.25
WeightedJointsAboveQuarter(mesh, v) ==
    SelectSeq([i \in 1..Len(mesh.influences) |-> i],
              LAMBDA i : mesh.weights[v][i] * 4 >= Unit)

\* skinPercent(cluster, vert, query=True, ignoreBelow=0.000001, transform=None)
WeightedJoints(mesh, v) ==
    SelectSeq([i \in 1..Len(mesh.influences) |-> i],
              LAMBDA i : mesh.weights[v][i] * IgnoreBelowPerUnit >= 1)

\* The influence check with the limit one too high
ExceedsMaxInfluencesOffByOne(n) == n > SkyrimMaxInfluences + 1

\* if len(joints) > 4
ExceedsMaxInfluences(n) == n > SkyrimMaxInfluences

\* The checks of one mesh, in the order of the loop body: "" when it passes.
ValidateMesh(mesh) ==
    IF \E f \in 1..Len(mesh.faces) : mesh.faces[f] > 3
    THEN "Exception: is not triangulated"
    ELSE IF ~mesh.skinned
    THEN "Exception: is not skinned."
    ELSE IF \E i \in 1..Len(mesh.influences) : EndsWith(mesh.influences[i], RbSuffix)
    THEN "Exception: is skinned to rigid body joints"
    ELSE IF \E v \in 1..Len(mesh.weights) : ExceedsMaxInfluences(Len(WeightedJoints(mesh, v)))
    THEN "Exception: Vertices have more than 4 influences"
    ELSE ""

\* One iteration of the validation loop.
ExportValidate ==
    /\ xpc = "validate"
    /\ LET list == SkinnedMeshes(xscene)
           e == ValidateMesh(xscene.meshes[list[xidx]])
       IN  IF e # ""
           THEN ExportRaise(e) /\ UNCHANGED xidx
           ELSE /\ UNCHANGED xerr
                /\ IF xidx < Len(list)
                   THEN xidx' = xidx + 1 /\ UNCHANGED xpc
                   ELSE xidx' = 1 /\ xpc' = "chunk"
    /\ UNCHANGED <<xscene, xscene0, xlog, codecVars, scaleVars, remapVars, physVars, toolVars>>

\* cmds.undoInfo(openChunk=True)
ExportOpenChunk ==
    /\ xpc = "chunk"
    /\ xlog' = Append(xlog, "openChunk")
    /\ xpc' = IF SkinnedMeshes(xscene) = <<>> THEN "fbx" ELSE "prepare"
    /\ xidx' = 1
    /\ UNCHANGED <<xscene, xscene0, xerr, codecVars, scaleVars, remapVars, physVars, toolVars>>

\* skinCluster(q=True, wi=True): the influences with a non-zero weight
WeightedInfluences(mesh) ==
    SelectSeq([i \in 1..Len(mesh.influences) |-> i],
              LAMBDA i : \E v \in 1..Len(mesh.weights) : mesh.weights[v][i] # 0)

\* One iteration of the first loop of the chunk: the unused influences are
\* removed and the vertex colours set to white.
PreparedMesh(mesh) ==
    LET keep == WeightedInfluences(mesh)
    IN  [mesh EXCEPT !.influences = [k \in 1..Len(keep) |-> mesh.influences[keep[k]]],
                     !.weights = [v \in 1..Len(mesh.weights) |->
                                     [k \in 1..Len(keep) |-> mesh.weights[v][keep[k]]]],
                     !.colors = "white"]

ExportPrepareMesh ==
    /\ xpc = "prepare"
    /\ LET list == SkinnedMeshes(xscene)
       IN  /\ xscene' = [xscene EXCEPT !.meshes[list[xidx]] = PreparedMesh(@)]
           /\ IF xidx < Len(list)
              THEN xidx' = xidx + 1 /\ UNCHANGED xpc
              ELSE xidx' = 1 /\ xpc' = "fbx"
    /\ xlog' = Append(xlog, "edit")
    /\ UNCHANGED <<xscene0, xerr, codecVars, scaleVars, remapVars, physVars, toolVars>>

\* A step of the chunk that works on files or runs the converter: it either
\* succeeds or raises, and a raise goes to the finally clause.
ExportStep(from, effect, to) ==
    /\ xpc = from
    /\ xlog' = Append(xlog, effect)
    /\ \E ok \in BOOLEAN :
          IF ok THEN xpc' = to /\ UNCHANGED xerr
                ELSE xpc' = "finally" /\ xerr' = effect
    /\ UNCHANGED <<xscene, xscene0, xidx, codecVars, scaleVars, remapVars, physVars, toolVars>>

\* constraints and message connections removed, then exportFbx(toExport, path)
ExportWriteFbx == ExportStep("fbx", "exportFbx", "convert")

\* ckcmd.importskin(path, dirname)
ExportImportSkin == ExportStep("convert", "importskin", "patch")

\* loadNif, fixNifMeshes, setMeshTextures, saveNif
ExportPatchNif == ExportStep("patch", "fixNifMeshes", "finally")

\* finally: cmds.undoInfo(closeChunk=True); cmds.undo()
ExportFinally ==
    /\ xpc = "finally"
    /\ xlog' = xlog \o <<"closeChunk", "undo">>
    /\ xscene' = xscene0
    /\ xpc' = IF xerr = "" THEN "done" ELSE "error"
    /\ UNCHANGED <<xscene0, xidx, xerr, codecVars, scaleVars, remapVars, physVars, toolVars>>

NextExport ==
    \/ ExportBegin
    \/ ExportValidate
    \/ ExportOpenChunk
    \/ ExportPrepareMesh
    \/ ExportWriteFbx
    \/ ExportImportSkin
    \/ ExportPatchNif
    \/ ExportFinally

-----------------------------------------------------------------------------
(* Physics capsules: vectors and matrices *)

\* Lengths are integers in thousandths; direction vectors and matrix rows
\* are unit vectors in thousandths.  Sizes are whole units and targets lie
\* along the axes of the capsule's parent, which keeps the arithmetic exact.
Milli == 1000

CAPSULE_START_ID == 37
CAPSULE_END_ID == 0
CAPSULE_Z_UP_ID == 19
CAPSULE_Z_DOWN_ID == 22

\* points[id] of a Python list
Pt(points, id) == points[id + 1]

Origin == <<0, 0, 0>>

XAxis == <<Milli, 0, 0>>
YAxis == <<0, Milli, 0>>
ZAxis == <<0, 0, Milli>>

VSub(a, b) == [i \in 1..3 |-> a[i] - b[i]]

VDot(a, b) == a[1] * b[1] + a[2] * b[2] + a[3] * b[3]

\* a ^ b for two unit vectors, again in thousandths
Cross(a, b) ==
    << (a[2] * b[3] - a[3] * b[2]) \div Milli,
       (a[3] * b[1] - a[1] * b[3]) \div Milli,
       (a[1] * b[2] - a[2] * b[1]) \div Milli >>

\* The integer square root, by bisection on lo * lo <= n < hi * hi.
RECURSIVE SqrtBetween(_, _, _)
SqrtBetween(n, lo, hi) ==
    IF hi - lo <= 1 THEN lo
    ELSE LET mid == (lo + hi) \div 2
         IN  IF mid * mid <= n THEN SqrtBetween(n, mid, hi) ELSE SqrtBetween(n, lo, mid)

ISqrt(n) == SqrtBetween(n, 0, 32 * Milli)

\* MVector.length()
Length(v) == ISqrt(VDot(v, v))

\* MVector.normal(): the zero vector stays zero
Normal(v) ==
    IF Length(v) = 0 THEN v ELSE [i \in 1..3 |-> (v[i] * Milli) \div Length(v)]

\* A matrix is its three rows x, y, z and its translation row o; a point is a
\* row vector, so p * M = p[1] * x + p[2] * y + p[3] * z + o.
Matrix(x, y, z, o) == [x |-> x, y |-> y, z |-> z, o |-> o]

Identity == Matrix(XAxis, YAxis, ZAxis, Origin)

\* The rotation part applied to a vector.
Rotate(v, m) ==
    [i \in 1..3 |-> (v[1] * m.x[i] + v[2] * m.y[i] + v[3] * m.z[i]) \div Milli]

\* _decomposeMatrix(_composeMatrix(point) * m)
Transform(p, m) == VAdd(Rotate(p, m), m.o)

\* MMatrix.inverse() of a rotation with translation
Inverse(m) ==
    LET t == Matrix(<<m.x[1], m.y[1], m.z[1]>>,
                    <<m.x[2], m.y[2], m.z[2]>>,
                    <<m.x[3], m.y[3], m.z[3]>>, Origin)
    IN  [t EXCEPT !.o = VNeg(Rotate(m.o, t))]

\* Every point of a list through the matrix m, which is evaluated once.
TransformAll(points, m) ==
    CHOOSE r \in {[i \in 1..Len(points) |-> Transform(points[i], mm)] : mm \in {m}} : TRUE

-----------------------------------------------------------------------------
(* Physics capsules: the capsule mesh *)

\* The y and z coefficients of a ring of 6 points, in the order of the list.
Ring(a, b, c) ==
    << <<0, c>>, <<0 - a, b>>, <<0 - a, 0 - b>>, <<0, 0 - c>>, <<a, 0 - b>>, <<a, b>> >>

\* One row of the list per vertex: whether x starts from radius + height, and
\* the coefficients of radius in x, y and z, in thousandths.
RingRows(far, xc, ring) == [k \in 1..6 |-> <<far, xc, ring[k][1], ring[k][2]>>]

CapsuleRows ==
    << <<1, 1000, 0, 0>> >>
        \o RingRows(1, 868, Ring(433, 250, 500))
        \o RingRows(1, 500, Ring(750, 433, 866))
        \o RingRows(1, 0, Ring(866, 500, 1000))
        \o RingRows(0, 1000, Ring(866, 500, 1000))
        \o RingRows(0, 500, Ring(750, 433, 866))
        \o RingRows(0, 132, Ring(433, 250, 500))
        \o << <<0, 0, 0, 0>> >>

\* The list without its last row
capsulePointsOpenEnded(height, radius) ==
    [i \in 1..(Len(CapsuleRows) - 1) |->
        << CapsuleRows[i][1] * (radius + height) + (CapsuleRows[i][2] * radius) \div Milli,
           (CapsuleRows[i][3] * radius) \div Milli,
           (CapsuleRows[i][4] * radius) \div Milli >>]

\* capsulePoints(height, radius): the local positions of the capsule vertices
capsulePoints(height, radius) ==
    [i \in 1..Len(CapsuleRows) |->
        << CapsuleRows[i][1] * (radius + height) + (CapsuleRows[i][2] * radius) \div Milli,
           (CapsuleRows[i][3] * radius) \div Milli,
           (CapsuleRows[i][4] * radius) \div Milli >>]

\* The x axis taken from the end to the start
getCapsuleMatrixReversed(points) ==
    LET xVector == Normal(VSub(Pt(points, CAPSULE_START_ID), Pt(points, CAPSULE_END_ID)))
        upVector == Normal(VSub(Pt(points, CAPSULE_Z_UP_ID), Pt(points, CAPSULE_START_ID)))
        yVector == Normal(Cross(xVector, upVector))
        zVector == Normal(Cross(xVector, yVector))
    IN  Matrix(xVector, yVector, zVector, Pt(points, CAPSULE_START_ID))

\* getCapsuleMatrix(points)
getCapsuleMatrix(points) ==
    LET xVector == Normal(VSub(Pt(points, CAPSULE_END_ID), Pt(points, CAPSULE_START_ID)))
        upVector == Normal(VSub(Pt(points, CAPSULE_Z_UP_ID), Pt(points, CAPSULE_START_ID)))
        yVector == Normal(Cross(xVector, upVector))
        zVector == Normal(Cross(xVector, yVector))
    IN  Matrix(xVector, yVector, zVector, Pt(points, CAPSULE_START_ID))

\* A half turn about the unit axis a: p -> 2 (p . a) a - p
HalfTurn(a) ==
    LET F(p) == [i \in 1..3 |-> (2 * VDot(p, a) * a[i]) \div (Milli * Milli) - p[i]]
    IN  Matrix(F(XAxis), F(YAxis), F(ZAxis), Origin)

\* u.rotateTo(v): the shortest rotation that takes the unit vector u onto the
\* unit vector v.  For opposite vectors it is a half turn about an axis
\* perpendicular to both, which the caller cannot choose.
RotateTo(u, v, axis) ==
    IF u = v THEN Identity
    ELSE IF u = VNeg(v) THEN HalfTurn(axis)
    ELSE LET w == Cross(u, v)
             F(p) == [i \in 1..3 |->
                         (VDot(p, u) * v[i] - VDot(p, v) * u[i] + VDot(p, w) * w[i])
                             \div (Milli * Milli)]
         IN  Matrix(F(XAxis), F(YAxis), F(ZAxis), Origin)

\* The unit axes perpendicular to a unit axis vector.
Perpendiculars(u) == {a \in {XAxis, YAxis, ZAxis} : VDot(a, u) = 0}

-----------------------------------------------------------------------------
(* Physics capsules: the scene *)

MaxCalls == 3

MaxBodies == 2

MaxSize == 2

\* A joint of the skeleton: its world matrix, its radius attribute and its
\* child joints, each with a name and a world position.
SkeletonJoint(m, radius, children) ==
    [name |-> <<"J">>, matrix |-> m, radius |-> radius, children |-> children]

ChildJoint(name, pos) == [name |-> name, pos |-> pos]

QuarterTurnZ == Matrix(YAxis, VNeg(XAxis), ZAxis, Origin)

JointMatrices ==
    {Identity, [QuarterTurnZ EXCEPT !.o = <<Milli, 0, 2 * Milli>>]}

\* The children of the joint at m.o, by their offsets from it.
ChildChoices ==
    {<<>>,
     << ChildJoint(<<"K">>, <<9 * Milli, 0, 0>>) >>,
     << ChildJoint(<<"K">>, <<9 * Milli, 12 * Milli, 0>>) >>,
     << ChildJoint(<<"K">>, Origin) >>,
     << ChildJoint(<<"J">> \o RbSuffix, Origin), ChildJoint(<<"K">>, <<0, 3 * Milli, 0>>) >>,
     << ChildJoint(<<"K">>, <<4 * Milli, 0, 0>>), ChildJoint(<<"L">>, <<0, 0, 8 * Milli>>) >>,
     << ChildJoint(<<"K">>, Origin), ChildJoint(<<"L">>, Origin) >>}

\* A rigid body: the world matrix of its joint, which its capsule transform
\* shares, the vertex positions of the capsule mesh in the space of that
\* transform, and the shading group the mesh is a member of.
RigidBody(name, m, points, group) ==
    [name |-> name \o RbSuffix, matrix |-> m, points |-> points, group |-> group]

\* cmds.xform(v, t=True, ws=True, q=True) for every vertex
WorldPoints(body) == TransformAll(body.points, body.matrix)

NoCall == [op |-> "none", body |-> 0, radius |-> 0, height |-> 0, target |-> Origin,
           err |-> "", before |-> <<>>]

InitPhysics ==
    /\ \E m \in JointMatrices, children \in ChildChoices, radius \in {Milli, 2 * Milli} :
          phys = [joints    |-> << SkeletonJoint(m, radius,
                                       [k \in 1..Len(children) |->
                                           [children[k] EXCEPT !.pos = VAdd(@, m.o)]]) >>,
                  bodies    |-> <<>>,
                  materials |-> <<>>,
                  groups    |-> <<>>]
    /\ plast = NoCall
    /\ pcount = 0
    /\ codecName = <<>>
    /\ codecCur = <<>>
    /\ codecOps = <<"idle">>
    /\ scene = <<>>
    /\ scene0 = <<>>
    /\ call = <<>>
    /\ spc = "idle"
    /\ sidx = 0
    /\ slocal = <<>>
    /\ serr = ""
    /\ meshes = <<>>
    /\ nif = <<>>
    /\ nif0 = <<>>
    /\ rcalls = <<>>
    /\ rpc = "idle"
    /\ rmesh = 0
    /\ rblock = 0
    /\ rvert = 0
    /\ rlocal = <<>>
    /\ rerr = ""
    /\ tool = <<>>
    /\ xscene = <<>>
    /\ xscene0 = <<>>
    /\ xpc = "idle"
    /\ xidx = 0
    /\ xlog = <<>>
    /\ xerr = ""

-----------------------------------------------------------------------------
(* Physics capsules: rigid bodies and the physics material *)

RB_MATERIAL_NAME == "SKY_HAV_MAT_SKIN"

\* The lookup that never finds a material
FindPhysicsMaterialNever(materials) == 0

\* for _material in cmds.ls(f'{RB_MATERIAL_NAME}*', type='phong'): the last
\* material found, 0 for None
FindPhysicsMaterial(materials) == Len(materials)

\* createPhysicsMaterial(): the phong shader and its shading group
createPhysicsMaterial(sc) ==
    [sc EXCEPT !.materials = Append(@, RB_MATERIAL_NAME),
               !.groups = Append(@, [shader |-> Len(sc.materials) + 1])]

\* assignPhysicsMaterial(mesh) for the capsule mesh of body b: a new shading
\* group on the material found or created, with the mesh as its member.
assignPhysicsMaterial(sc, b) ==
    LET found == FindPhysicsMaterial(sc.materials)
        sc1 == IF found = 0 THEN createPhysicsMaterial(sc) ELSE sc
        material == IF found = 0 THEN Len(sc1.materials) ELSE found
    IN  [sc1 EXCEPT !.groups = Append(@, [shader |-> material]),
                    !.bodies[b].group = Len(sc1.groups) + 1]

\* createRigidBody(name, radius, height): the joint name_rb at the origin with
\* the capsule mesh below it.
createRigidBody(sc, name, radius, height) ==
    LET sc1 == [sc EXCEPT !.bodies =
                    Append(@, RigidBody(name, Identity, capsulePoints(height, radius), 0))]
    IN  assignPhysicsMaterial(sc1, Len(sc1.bodies))

\* childDistance > 0.01
DistanceEpsilon == 10

Max(a, b) == IF a >= b THEN a ELSE b

RECURSIVE SeqSum(_)
SeqSum(q) == IF q = <<>> THEN 0 ELSE Head(q) + SeqSum(Tail(q))

RECURSIVE SeqMax(_)
SeqMax(q) == IF Len(q) = 1 THEN Head(q) ELSE Max(Head(q), SeqMax(Tail(q)))

\* The single-child size without the distance test
RigidBodySizeUnguarded(joint) ==
    LET childJoints == SelectSeq(joint.children, LAMBDA c : ~EndsWith(c.name, RbSuffix))
        d == [k \in 1..Len(childJoints) |-> Length(VSub(childJoints[k].pos, joint.matrix.o))]
    IN  IF Len(childJoints) = 1
        THEN [radius |-> d[1] \div 3, height |-> Max(0, d[1] - (d[1] \div 3) * 2)]
        ELSE IF Len(childJoints) > 1 /\ SeqMax(d) > DistanceEpsilon
        THEN [radius |-> SeqSum(d) \div Len(d),
              height |-> SeqMax(d) \div 2 - (SeqSum(d) \div Len(d)) * 2]
        ELSE [radius |-> joint.radius, height |-> 0]

\* The radius and height addRigidBody passes to createRigidBody.
RigidBodySize(joint) ==
    LET childJoints == SelectSeq(joint.children, LAMBDA c : ~EndsWith(c.name, RbSuffix))
        d == [k \in 1..Len(childJoints) |-> Length(VSub(childJoints[k].pos, joint.matrix.o))]
    IN  IF Len(childJoints) = 1 /\ d[1] > DistanceEpsilon
        THEN [radius |-> d[1] \div 3, height |-> Max(0, d[1] - (d[1] \div 3) * 2)]
        ELSE IF Len(childJoints) > 1 /\ SeqMax(d) > DistanceEpsilon
        THEN [radius |-> SeqSum(d) \div Len(d),
              height |-> SeqMax(d) \div 2 - (SeqSum(d) \div Len(d)) * 2]
        ELSE [radius |-> joint.radius, height |-> 0]

\* addRigidBody(joint)
AddRigidBody ==
    /\ pcount < MaxCalls
    /\ Len(phys.bodies) < MaxBodies
    /\ \E j \in 1..Len(phys.joints) :
          LET joint == phys.joints[j]
              size == RigidBodySize(joint)
              sc1 == createRigidBody(phys, joint.name, size.radius, size.height)
              b == Len(sc1.bodies)
          IN  /\ phys' = [sc1 EXCEPT !.bodies[b].matrix = joint.matrix]
              /\ plast' = [NoCall EXCEPT !.op = "addRigidBody", !.body = b,
                                         !.radius = size.radius, !.height = size.height]
    /\ pcount' = pcount + 1
    /\ UNCHANGED <<codecVars, scaleVars, remapVars, exportVars, toolVars>>

\* createRigidBody(name, radius=radius, height=height)
CreateRigidBody ==
    /\ pcount < MaxCalls
    /\ Len(phys.bodies) < MaxBodies
    /\ \E radius \in 1..MaxSize, height \in {0, 2} :
          /\ phys' = createRigidBody(phys, <<"c">>, radius * Milli, height * Milli)
          /\ plast' = [NoCall EXCEPT !.op = "createRigidBody", !.body = Len(phys.bodies) + 1,
                                     !.radius = radius * Milli, !.height = height * Milli]
    /\ pcount' = pcount + 1
    /\ UNCHANGED <<codecVars, scaleVars, remapVars, exportVars, toolVars>>

\* assignPhysicsMaterial(mesh) on the capsule of an existing rigid body
AssignPhysicsMaterial ==
    /\ pcount < MaxCalls
    /\ \E b \in 1..Len(phys.bodies) :
          /\ phys' = assignPhysicsMaterial(phys, b)
          /\ plast' = [NoCall EXCEPT !.op = "assignPhysicsMaterial", !.body = b]
    /\ pcount' = pcount + 1
    /\ UNCHANGED <<codecVars, scaleVars, remapVars, exportVars, toolVars>>

NextPhysics ==
    \/ AddRigidBody
    \/ CreateRigidBody
    \/ AssignPhysicsMaterial

-----------------------------------------------------------------------------
(* Physics capsules: updateCapsule and aimCapsule *)

\* The nodes of a rigid body are its joint ("rigidbody"), the capsule
\* transform below it ("capsule") and the mesh shape below that ("shape").
\* getCapsule(node): the child of the node whose name ends in _rb_capsule
getCapsule(node) == IF node = "rigidbody" THEN "capsule" ELSE "None"

\* getMeshPoints(mesh): cmds.ls('%s.vtx[*]' % mesh) is empty for a node that
\* has no mesh
getMeshPoints(body, node) ==
    IF node \in {"capsule", "shape"} THEN WorldPoints(body) ELSE <<>>

\* getCapsuleRadius(capsule): indexing the empty point list raises
getCapsuleRadius(body, node) ==
    LET points == getMeshPoints(body, getCapsule(node))
    IN  IF points = <<>>
        THEN [err |-> "IndexError", val |-> 0]
        ELSE [err |-> "",
              val |-> Length(VSub(Pt(points, CAPSULE_Z_UP_ID), Pt(points, CAPSULE_Z_DOWN_ID))) \div 2]

\* getCapsuleHeight(capsule)
getCapsuleHeight(body, node) ==
    LET capsule == getCapsule(node)
        points == getMeshPoints(body, capsule)
        radius == getCapsuleRadius(body, capsule)
    IN  IF points = <<>> \/ radius.err # ""
        THEN [err |-> "IndexError", val |-> 0]
        ELSE [err |-> "",
              val |-> Length(VSub(Pt(points, CAPSULE_END_ID), Pt(points, CAPSULE_START_ID)))
                          - radius.val * 2]

\* The radius and height updateCapsule generates the points from; an optional
\* argument is <<>> for None or <<value>>.
UpdateSize(body, mesh, radius, height) ==
    LET r == getCapsuleRadius(body, mesh)
        h == getCapsuleHeight(body, mesh)
    IN  IF radius # <<>> /\ height # <<>>
        THEN [err |-> "", radius |-> radius[1], height |-> height[1]]
        ELSE IF r.err # "" \/ h.err # ""
        THEN [err |-> "IndexError", radius |-> 0, height |-> 0]
        ELSE IF height # <<>>
        THEN [err |-> "", radius |-> r.val - ((height[1] - h.val) \div 2), height |-> height[1]]
        ELSE IF radius # <<>>
        THEN [err |-> "", radius |-> radius[1],
              height |-> Max(0, h.val - ((radius[1] - r.val) * 2))]
        ELSE [err |-> "", radius |-> r.val, height |-> h.val]

\* The object-space points of a body whose vertices are put at world points.
SetWorldPoints(body, points) ==
    [body EXCEPT !.points = TransformAll(points, Inverse(body.matrix))]

OptionalSizes(low) == {<<>>} \cup {<<k * Milli>> : k \in low..MaxSize}

MaxEdits == 2

\* A scene with one rigid body, as createRigidBody leaves it once its joint
\* has been given the matrix of a skeleton joint.
InitCapsule ==
    /\ \E m \in JointMatrices, radius \in 1..MaxSize, height \in {0, 2} :
          phys = [createRigidBody([joints |-> <<>>, bodies |-> <<>>,
                                   materials |-> <<>>, groups |-> <<>>],
                                  <<"c">>, radius * Milli, height * Milli)
                     EXCEPT !.bodies[1].matrix = m]
    /\ plast = NoCall
    /\ pcount = 0
    /\ codecName = <<>>
    /\ codecCur = <<>>
    /\ codecOps = <<"idle">>
    /\ scene = <<>>
    /\ scene0 = <<>>
    /\ call = <<>>
    /\ spc = "idle"
    /\ sidx = 0
    /\ slocal = <<>>
    /\ serr = ""
    /\ meshes = <<>>
    /\ nif = <<>>
    /\ nif0 = <<>>
    /\ rcalls = <<>>
    /\ rpc = "idle"
    /\ rmesh = 0
    /\ rblock = 0
    /\ rvert = 0
    /\ rlocal = <<>>
    /\ rerr = ""
    /\ tool = <<>>
    /\ xscene = <<>>
    /\ xscene0 = <<>>
    /\ xpc = "idle"
    /\ xidx = 0
    /\ xlog = <<>>
    /\ xerr = ""

\* The new world positions of the vertices: the generated points taken from
\* capsule space to world space.
UpdatedPoints(vertexPoints, size) ==
    TransformAll(capsulePoints(size.height, size.radius), getCapsuleMatrix(vertexPoints))

\* updateCapsule(mesh, radius, height), called with the capsule transform
UpdateCapsule ==
    /\ pcount < MaxEdits
    /\ \E b \in 1..Len(phys.bodies), radius \in OptionalSizes(1), height \in OptionalSizes(0) :
       \E body \in {phys.bodies[b]}, mesh \in {"shape"} :
       \E vertexPoints \in {getMeshPoints(body, mesh)} :
       \E size \in {UpdateSize(body, mesh, radius, height)},
          called \in {[NoCall EXCEPT !.op = "updateCapsule", !.body = b,
                                     !.radius = radius, !.height = height,
                                     !.before = vertexPoints]} :
          IF size.err # ""
          THEN /\ plast' = [called EXCEPT !.err = size.err]
               /\ UNCHANGED phys
          ELSE /\ plast' = called
               /\ phys' = [phys EXCEPT !.bodies[b] =
                              SetWorldPoints(body, UpdatedPoints(vertexPoints, size))]
    /\ pcount' = pcount + 1
    /\ UNCHANGED <<codecVars, scaleVars, remapVars, exportVars, toolVars>>

\* transformCapsule(mesh, rotate=rotation, space=om2.MSpace.kObject) on the
\* vertex positions read from the mesh: the rotation is applied in the space
\* of the parent transform of the mesh.
transformCapsule(body, vertexPoints, rotation) ==
    LET capsuleMatrix == body.matrix
    IN  SetWorldPoints(body,
            TransformAll(TransformAll(TransformAll(vertexPoints, Inverse(capsuleMatrix)),
                                      rotation), capsuleMatrix))

AimDistance == 3 * Milli

\* The targets: the points at AimDistance from the start vertex along the
\* world axes.
AimTargets(start) ==
    {VAdd(start, [i \in 1..3 |-> (sign * AimDistance * a[i]) \div Milli]) :
        a \in {XAxis, YAxis, ZAxis}, sign \in {0 - 1, 1}}

\* The axes rotateTo may turn about: any perpendicular axis when the vectors
\* are opposite, and the one axis of the rotation otherwise.
TurnAxes(u, v) == IF u = VNeg(v) THEN Perpendiculars(v) ELSE {Cross(u, v)}

\* aimCapsule(mesh, target)
AimCapsule ==
    /\ pcount < MaxEdits
    /\ \E b \in 1..Len(phys.bodies) :
       \E body \in {phys.bodies[b]} :
       \E points \in {getMeshPoints(body, "shape")} :
       \E target \in AimTargets(Pt(points, CAPSULE_START_ID)) :
       \E capsuleMatrix \in {getCapsuleMatrix(points)} :
       \E targetPoint \in {Transform(target, Inverse(capsuleMatrix))} :
       \E startVector \in {XAxis}, endVector \in {Normal(targetPoint)} :
       \E axis \in TurnAxes(endVector, startVector) :
       \E rotation \in {RotateTo(endVector, startVector, axis)} :
          /\ phys' = [phys EXCEPT !.bodies[b] = transformCapsule(body, points, rotation)]
          /\ plast' = [NoCall EXCEPT !.op = "aimCapsule", !.body = b,
                                     !.target = target, !.before = points]
    /\ pcount' = pcount + 1
    /\ UNCHANGED <<codecVars, scaleVars, remapVars, exportVars, toolVars>>

NextCapsule ==
    \/ UpdateCapsule
    \/ AimCapsule

-----------------------------------------------------------------------------
(* The physics tool window: PhysicsWindow and EditRigidBodyWidget *)

\* The rigid bodies of the scene
NumToolBodies == 2

\* The selection changes, mesh evaluations and size edits of a run
MaxToolEvents == 4

\* 0 stands for a selection without a rigid body (getSelectedRigidBody() is None)
ToolSelections == 0..NumToolBodies

\* The callbacks updateRigidBody appends for the re-read rigid body, one for
\* each mesh of cmds.listRelatives(getCapsule(rigidBody), type='mesh') or []:
\* body b has b mesh shapes under its capsule, and None (0) adds none.
RegisteredMeshes(b) == [i \in 1..b |-> <<b, i>>]

\* EditRigidBodyWidget.updateRigidBody on a widget whose Qt objects exist
updateRigidBody(t) ==
    [t EXCEPT !.waiting = FALSE,
              !.rigidBody = t.selected,
              !.callbacks = RegisteredMeshes(t.selected)]

\* updateRigidBody on a widget whose Qt objects are deleted: the label's
\* setText raises after removeCallbacks and the re-read of the selection.
updateRigidBodyDeleted(t) ==
    [t EXCEPT !.waiting = FALSE, !.rigidBody = t.selected, !.callbacks = <<>>]

\* PhysicsWindow.__init__: the edit widget is updated once and the
\* SelectionChanged callback is added.
InitTool ==
    /\ \E b \in ToolSelections :
          tool = updateRigidBody([open |-> TRUE, deleted |-> FALSE, selCallback |-> TRUE,
                                  callbacks |-> <<>>, waiting |-> FALSE, rigidBody |-> 0,
                                  selected |-> b, deferred |-> 0, events |-> 0])
    /\ codecName = <<>>
    /\ codecCur = <<>>
    /\ codecOps = <<"idle">>
    /\ scene = <<>>
    /\ scene0 = <<>>
    /\ call = <<>>
    /\ spc = "idle"
    /\ sidx = 0
    /\ slocal = <<>>
    /\ serr = ""
    /\ meshes = <<>>
    /\ nif = <<>>
    /\ nif0 = <<>>
    /\ rcalls = <<>>
    /\ rpc = "idle"
    /\ rmesh = 0
    /\ rblock = 0
    /\ rvert = 0
    /\ rlocal = <<>>
    /\ rerr = ""
    /\ xscene = <<>>
    /\ xscene0 = <<>>
    /\ xpc = "idle"
    /\ xidx = 0
    /\ xlog = <<>>
    /\ xerr = ""
    /\ phys = <<>>
    /\ plast = <<>>
    /\ pcount = 0

\* The selection changes; onSelectionChanged, while its callback is
\* registered, defers a call of updateRigidBody.
ToolSelectionChanged ==
    /\ tool.events < MaxToolEvents
    /\ \E b \in ToolSelections \ {tool.selected} :
          tool' = [tool EXCEPT !.selected = b,
                               !.events = @ + 1,
                               !.deferred = IF tool.selCallback THEN @ + 1 ELSE @]
    /\ UNCHANGED <<codecVars, scaleVars, remapVars, exportVars, physVars>>

\* The outMesh plug of a mesh with a registered callback is evaluated:
\* _onMeshChanged defers one call of updateRigidBody unless one is waiting.
ToolMeshChanged ==
    /\ tool.events < MaxToolEvents
    /\ tool.callbacks # <<>>
    /\ tool' = [tool EXCEPT !.events = @ + 1,
                            !.waiting = TRUE,
                            !.deferred = IF tool.waiting THEN @ ELSE @ + 1]
    /\ UNCHANGED <<codecVars, scaleVars, remapVars, exportVars, physVars>>

\* _onHeightChanged, _onRadiusChanged: after the capsule is updated the
\* widget is updated at once.
ToolSizeEdited ==
    /\ tool.events < MaxToolEvents
    /\ tool.open
    /\ tool.rigidBody # 0
    /\ tool' = [updateRigidBody(tool) EXCEPT !.events = @ + 1]
    /\ UNCHANGED <<codecVars, scaleVars, remapVars, exportVars, physVars>>

\* Maya is idle and runs the oldest deferred call of updateRigidBody.
ToolRunDeferred ==
    /\ tool.deferred > 0
    /\ tool' = [(IF tool.deleted THEN updateRigidBodyDeleted(tool) ELSE updateRigidBody(tool))
                    EXCEPT !.deferred = @ - 1]
    /\ UNCHANGED <<codecVars, scaleVars, remapVars, exportVars, physVars>>

\* PhysicsWindow.closeEvent: the SelectionChanged callback and the widget's
\* callbacks are removed.
ToolClose ==
    /\ tool.open
    /\ tool' = [tool EXCEPT !.open = FALSE, !.selCallback = FALSE, !.callbacks = <<>>]
    /\ UNCHANGED <<codecVars, scaleVars, remapVars, exportVars, physVars>>

\* WA_DeleteOnClose: Qt deletes the closed window and its widgets when it
\* handles the deferred delete.
ToolDeleted ==
    /\ ~tool.open
    /\ ~tool.deleted
    /\ tool' = [tool EXCEPT !.deleted = TRUE]
    /\ UNCHANGED <<codecVars, scaleVars, remapVars, exportVars, physVars>>

NextTool ==
    \/ ToolSelectionChanged
    \/ ToolMeshChanged
    \/ ToolSizeEdited
    \/ ToolRunDeferred
    \/ ToolClose
    \/ ToolDeleted

-----------------------------------------------------------------------------
(* Specifications *)

\* fixNifMeshes on one mesh
Spec == InitRemap /\ [][NextRemap]_vars

\* scaleMesh or scaleRig, one call
SpecScale == InitScale /\ [][NextScale]_vars

\* chains of at most two name conversions
SpecCodec == InitCodec /\ [][NextCodec]_vars

\* exportSkin, one call
SpecExport == InitExport /\ [][NextExport]_vars

\* fixNifMeshes on a list of two meshes
SpecMeshes == InitRemapMeshes /\ [][NextRemap]_vars

\* at most MaxCalls calls that create rigid bodies or assign the material
SpecPhysics == InitPhysics /\ [][NextPhysics]_vars

\* at most MaxEdits calls of updateCapsule and aimCapsule on one capsule
SpecCapsule == InitCapsule /\ [][NextCapsule]_vars

\* the physics tool window from its construction, at most MaxToolEvents events
SpecTool == InitTool /\ [][NextTool]_vars

-----------------------------------------------------------------------------
(* Properties of the weight remap *)

TheMesh == meshes[rmesh]

TheShape == nif[IF rlocal.tri = 0 THEN findTriShapeByPolygons(TheMesh, nif) ELSE rlocal.tri]

\* The nif vertices that are copies of Maya vertex m.
CopiesOf(m) ==
    {t \in UsedVerts(TheShape.triangles) :
        \E i \in 1..Len(TheMesh.faces), j \in 1..3 :
            TheShape.triangles[i][j] = t /\ TheMesh.faces[i][j] = m}

\* The Maya vertex a nif vertex is a copy of.
SourceOf(t) == CHOOSE m \in DOMAIN TheMesh.weights : t \in CopiesOf(m)

\* The scene name of the bone a local bone index of a block stands for.
SlotBone(block, local) == toMayaName(TheShape.bones[block.bones[local + 1] + 1])

\* The influences of a Maya vertex with a weight above 0.001, in order.
Surviving(m) == SelectSeq(TheMesh.weights[m], LAMBDA pr : pr[2] > WeightEpsilon)

\* The scene names of the bones of the skin instance.
SkinBoneNames == {toMayaName(TheShape.bones[i]) : i \in 1..Len(TheShape.bones)}

\* nif_weights has been built.
Converted ==
    \/ rpc \in {"block", "vertex", "done"}
    \/ rpc = "error" /\ rerr \in {"IndexError", "KeyError: Failed to find bone index",
                                  "KeyError: nif_weights[vertex]"}

\* C1: after the remap, for every partition vertex at most 4 slots have a
\* nonzero weight, and every slot with a nonzero weight holds a valid position
\* of the block's bone table whose entry is the bone of the source influence
\* with that weight.
C1_SlotsResolve ==
    rpc = "done" =>
        \A b \in 1..Len(TheShape.blocks) :
            LET block == TheShape.blocks[b]
            IN  \A pv \in 1..Len(block.vertex_map) :
                    LET vw == block.vertex_weights[pv]
                        bi == block.bone_indices[pv]
                        src == TheMesh.weights[SourceOf(block.vertex_map[pv])]
                    IN  /\ Cardinality({i \in DOMAIN vw : vw[i] # 0}) <= 4
                        /\ \A i \in DOMAIN vw :
                              vw[i] # 0 =>
                                /\ bi[i] \in 0..(Len(block.bones) - 1)
                                /\ \E e \in 1..Len(src) :
                                      /\ src[e][2] = vw[i]
                                      /\ src[e][1] = SlotBone(block, bi[i])

\* C1 witness: the remap is done and a written slot holds a local index that
\* differs from the global index it stands for.
C1_Witness ==
    /\ rpc = "done"
    /\ \E b \in 1..Len(TheShape.blocks) :
          LET block == TheShape.blocks[b]
          IN  \E pv \in 1..Len(block.vertex_map), i \in 1..NumWeightsPerVertex :
                 /\ block.vertex_weights[pv][i] # 0
                 /\ block.bones[block.bone_indices[pv][i] + 1] # block.bone_indices[pv][i]

\* C2: the lookup of a bone index in the block's table never fails, and after
\* the remap every block's table holds every index of the skin instance's bone
\* list and every bone index its vertices reference.
C2_BonesCovered ==
    /\ rerr # "KeyError: Failed to find bone index"
    /\ rpc = "done" =>
          \A b \in 1..Len(TheShape.blocks) :
              LET block == TheShape.blocks[b]
              IN  /\ \A g \in 0..(Len(TheShape.bones) - 1) : InSeq(block.bones, g)
                  /\ \A pv \in 1..Len(block.vertex_map) :
                        \A g \in Keys(rlocal.nif_weights[block.vertex_map[pv]]) :
                            InSeq(block.bones, g)

\* C2 witness: the remap is done and a vertex references a bone index that
\* its block's table did not hold before the remap.
C2_Witness ==
    /\ rpc = "done"
    /\ \E b \in 1..Len(TheShape.blocks) :
          LET block == TheShape.blocks[b]
          IN  \E pv \in 1..Len(block.vertex_map) :
                 \E g \in Keys(rlocal.nif_weights[block.vertex_map[pv]]) :
                    ~InSeq(nif0[rlocal.tri].blocks[b].bones, g)

\* The vertex mapping has been built.
Mapped == rpc \in {"weights", "block", "vertex", "done", "error"} /\ rlocal.mapping # <<>>

\* C3: for a well-formed mesh pair every target vertex id is in the
\* correspondence set of exactly one source vertex.
C3_ExactlyOneSource ==
    Mapped =>
        \A t \in UsedVerts(TheShape.triangles) :
            Cardinality({m \in DOMAIN rlocal.mapping : t \in rlocal.mapping[m]}) = 1

\* C3 witness: a mapping over two faces in which a source vertex has two
\* target copies.
C3_Witness ==
    /\ Mapped
    /\ Len(TheMesh.faces) = 2
    /\ \E m \in DOMAIN rlocal.mapping : Cardinality(rlocal.mapping[m]) = 2

\* The entry (bone, weight) is in the resolved set of nif vertex t.
Kept(t, bone, weight) ==
    \E g \in Keys(rlocal.nif_weights[t]) :
        /\ toMayaName(TheShape.bones[g + 1]) = bone
        /\ Get(rlocal.nif_weights[t], g) = weight

\* No entry for the bone is in the resolved set of nif vertex t.
Absent(t, bone) ==
    \A g \in Keys(rlocal.nif_weights[t]) : toMayaName(TheShape.bones[g + 1]) # bone

\* C4 (as stated): an entry is kept when its weight is 0.001 or more and
\* dropped when it is below 0.001.
C4_DroppedBelowEpsilon ==
    Converted =>
        \A m \in DOMAIN TheMesh.weights : \A t \in CopiesOf(m) :
            \A e \in 1..Len(TheMesh.weights[m]) :
                LET bone == TheMesh.weights[m][e][1]
                    weight == TheMesh.weights[m][e][2]
                IN  /\ weight >= WeightEpsilon => Kept(t, bone, weight)
                    /\ weight < WeightEpsilon => Absent(t, bone)

\* C4 (amended): every resolved set the remap builds keeps the entries with a
\* weight above 0.001 and drops the entries of 0.001 or below.
C4_DroppedAtOrBelowEpsilon ==
    Converted =>
        \A m \in DOMAIN TheMesh.weights : \A t \in CopiesOf(m) :
            \A e \in 1..Len(TheMesh.weights[m]) :
                LET bone == TheMesh.weights[m][e][1]
                    weight == TheMesh.weights[m][e][2]
                IN  /\ weight > WeightEpsilon => Kept(t, bone, weight)
                    /\ weight <= WeightEpsilon => Absent(t, bone)

\* C4 witness: the weights are converted and a vertex has an entry of exactly
\* 0.001 next to an entry above it.
C4_Witness ==
    /\ Converted
    /\ \E m \in DOMAIN TheMesh.weights :
          \E e, f \in 1..Len(TheMesh.weights[m]) :
             /\ TheMesh.weights[m][e][2] = WeightEpsilon
             /\ TheMesh.weights[m][f][2] > WeightEpsilon

\* A vertex carries a weight above 0.001 for a bone the skin instance lacks.
MissingInfluenceBone ==
    \E m \in DOMAIN TheMesh.weights :
        \E e \in 1..Len(Surviving(m)) : Surviving(m)[e][1] \notin SkinBoneNames

\* A vertex has more than 4 influences above 0.001.
TooManyInfluences ==
    \E m \in DOMAIN TheMesh.weights : Len(Surviving(m)) > NumWeightsPerVertex

\* C5: with a surviving influence on a bone the skin instance lacks (and no
\* vertex over the slot capacity) the remap does not fail.
C5_MissingBoneDropped ==
    (MissingInfluenceBone /\ ~TooManyInfluences) => rpc # "error"

\* C6 (as stated): with more than 4 surviving influences on a vertex (and no
\* missing bone) the remap does not fail.
C6_SilentTruncation ==
    (TooManyInfluences /\ ~MissingInfluenceBone) => rpc # "error"

\* C6 (amended): the remap never completes with a vertex that has more than 4
\* surviving influences; it fails at the access to the fifth slot of the
\* first such vertex, whose 4 slots then hold its first 4 influences in order,
\* and the vertices and blocks after it are as they were before the call.
C6_FifthInfluenceFails ==
    /\ rpc = "done" =>
          \A b \in 1..Len(TheShape.blocks) :
             \A pv \in 1..Len(TheShape.blocks[b].vertex_map) :
                Len(Surviving(SourceOf(TheShape.blocks[b].vertex_map[pv]))) <= NumWeightsPerVertex
    /\ rerr = "IndexError" =>
          LET block == TheShape.blocks[rblock]
              sv == Surviving(SourceOf(block.vertex_map[rvert]))
          IN  /\ rpc = "error"
              /\ Len(sv) > NumWeightsPerVertex
              /\ \A i \in 1..NumWeightsPerVertex :
                    /\ block.vertex_weights[rvert][i] = sv[i][2]
                    /\ SlotBone(block, block.bone_indices[rvert][i]) = sv[i][1]
              /\ \A pv \in (rvert + 1)..Len(block.vertex_map) :
                    /\ block.vertex_weights[pv] = nif0[rlocal.tri].blocks[rblock].vertex_weights[pv]
                    /\ block.bone_indices[pv] = nif0[rlocal.tri].blocks[rblock].bone_indices[pv]
              /\ \A b \in (rblock + 1)..Len(TheShape.blocks) :
                    TheShape.blocks[b] = nif0[rlocal.tri].blocks[b]

\* C6 witness: the remap has failed at a fifth influence.
C6_Witness == rpc = "error" /\ rerr = "IndexError" /\ TooManyInfluences

\* C10: when fixNifMeshes fails, the partition blocks (bone tables, bone index
\* slots, weight slots) are as they were before the call.
C10_RolledBack ==
    rpc = "error" => \A k \in 1..Len(nif) : nif[k].blocks = nif0[k].blocks

-----------------------------------------------------------------------------
(* Properties of the name codec *)

RoundTripDone == codecOps = <<"toCkName", "toMayaName">>

-----------------------------------------------------------------------------
(* Properties of the rescale *)

\* C8: scaleMesh with a scale below 0.001 raises the scale-too-small error
\* and changes nothing in the scene.
C8_ScaleMeshRejects ==
    (call.op = "scaleMesh" /\ call.scale < ScaleEpsilon) =>
        /\ scene = scene0
        /\ spc \in {"start", "error"}
        /\ spc = "error" => serr = "ValueError: Scale is too small."

\* C8 witness: scaleMesh with scale 0.0005 has raised.
C8_Witness == call.op = "scaleMesh" /\ call.scale = 5 /\ spc = "error"

\* C9: scaleRig with a scale below 0.001 changes nothing in the scene.
C9_ScaleRigRejects ==
    (call.op = "scaleRig" /\ call.scale < ScaleEpsilon) => scene = scene0


-----------------------------------------------------------------------------
(* exportSkin: claims *)

\* Some skinned mesh has a face with more than 3 vertices, a rigid-body
\* influence, or a vertex with more than 4 weighted influences.
PreconditionViolated(sc) ==
    \E m \in 1..Len(sc.meshes) :
       LET mesh == sc.meshes[m]
       IN  /\ mesh.skinned
           /\ \/ \E f \in 1..Len(mesh.faces) : mesh.faces[f] > 3
              \/ \E i \in 1..Len(mesh.influences) : EndsWith(mesh.influences[i], RbSuffix)
              \/ \E v \in 1..Len(mesh.weights) :
                    Cardinality({i \in 1..Len(mesh.influences) : mesh.weights[v][i] > 0}) > 4

\* C11: when a skinned mesh violates a precondition, exportSkin ends with an
\* exception and never opens the undo chunk: no scene edit, no FBX export, no
\* converter call and no nif patch takes place.
C11_FatalBeforeChunk ==
    PreconditionViolated(xscene0) =>
        /\ xlog = <<>>
        /\ xscene = xscene0
        /\ xpc \in {"start", "validate", "error"}
        /\ (xpc = "error" => xerr # "")

\* exportSkin has raised on a scene whose first validated mesh is fine and
\* whose second has a vertex with 5 influences.
C11_Witness ==
    /\ xpc = "error"
    /\ xidx = 2
    /\ xerr = "Exception: Vertices have more than 4 influences"
    /\ PreconditionViolated(xscene0)
    /\ xlog = <<>>

-----------------------------------------------------------------------------
(* Physics capsules: claims *)

\* The distances from a joint to its child joints that are not rigid bodies.
ChildDistances(joint) ==
    LET kids == SelectSeq(joint.children, LAMBDA c : ~EndsWith(c.name, RbSuffix))
    IN  [k \in 1..Len(kids) |-> Length(VSub(kids[k].pos, joint.matrix.o))]

\* The rigid body the last call created is the capsule of the sizes it passed.
CreatedAsSized ==
    /\ plast.body = Len(phys.bodies)
    /\ phys.bodies[plast.body].points = capsulePoints(plast.height, plast.radius)

\* C12 (as claimed): addRigidBody sizes the capsule from the child joints that
\* are not rigid bodies: one child at distance d gives radius d/3 and height
\* max(0, d - 2 radius); several children give the mean distance as radius and
\* max distance / 2 - 2 radius as height, unclamped.
C12_SizedFromChildren ==
    plast.op = "addRigidBody" =>
        LET d == ChildDistances(phys.joints[1])
        IN  /\ CreatedAsSized
            /\ Len(d) = 1 =>
                  /\ plast.radius = d[1] \div 3
                  /\ plast.height = Max(0, d[1] - 2 * plast.radius)
            /\ Len(d) > 1 =>
                  /\ plast.radius = SeqSum(d) \div Len(d)
                  /\ plast.height = SeqMax(d) \div 2 - 2 * plast.radius

\* C12 (amended): the sizes of C12 are used when the distance of the only
\* child, or the largest distance of several children, is above 0.01; in
\* every other case the radius is the joint's radius and the height is 0.
C12_SizedFromDistantChildren ==
    plast.op = "addRigidBody" =>
        LET d == ChildDistances(phys.joints[1])
        IN  /\ CreatedAsSized
            /\ (Len(d) = 1 /\ d[1] > DistanceEpsilon) =>
                  /\ plast.radius = d[1] \div 3
                  /\ plast.height = Max(0, d[1] - 2 * plast.radius)
            /\ (Len(d) > 1 /\ SeqMax(d) > DistanceEpsilon) =>
                  /\ plast.radius = SeqSum(d) \div Len(d)
                  /\ plast.height = SeqMax(d) \div 2 - 2 * plast.radius
            /\ (d = <<>> \/ SeqMax(d) <= DistanceEpsilon) =>
                  /\ plast.radius = phys.joints[1].radius
                  /\ plast.height = 0

\* addRigidBody has run on a joint whose only child is at distance 9 and has
\* created a capsule of radius 3 and height 3.
C12_Witness ==
    /\ plast.op = "addRigidBody"
    /\ ChildDistances(phys.joints[1]) = <<9 * Milli>>
    /\ plast.radius = 3 * Milli
    /\ plast.height = 3 * Milli
    /\ CreatedAsSized

\* addRigidBody has run on a joint with several children and has passed a
\* negative height.
C12_WitnessNegativeHeight ==
    /\ plast.op = "addRigidBody"
    /\ Len(ChildDistances(phys.joints[1])) > 1
    /\ plast.height < 0

\* The last call created a rigid body.
Created == plast.op \in {"createRigidBody", "addRigidBody"}

VTimes(k, v) == [i \in 1..3 |-> k * v[i]]

\* C13: the capsule mesh of a new rigid body has exactly 38 points, point 37
\* at the origin and point 0 at (2 radius + height, 0, 0); for height 0 the
\* points of k times the radius are k times the points.
C13_CapsulePoints ==
    Created =>
        LET points == phys.bodies[plast.body].points
        IN  /\ Len(points) = 38
            /\ Pt(points, 37) = Origin
            /\ Pt(points, 0) = <<2 * plast.radius + plast.height, 0, 0>>
            /\ points = capsulePoints(plast.height, plast.radius)
            /\ plast.height = 0 =>
                  \A k \in 1..3 : \A i \in 1..Len(points) :
                     capsulePoints(0, k * plast.radius)[i] = VTimes(k, points[i])

\* createRigidBody has made a capsule of height 0 and radius 2.
C13_Witness ==
    /\ plast.op = "createRigidBody"
    /\ plast.height = 0
    /\ plast.radius = 2 * Milli
    /\ Len(phys.bodies[plast.body].points) = 38

\* C17: in a scene that starts without a physics material, once a rigid body
\* has been created or a material assigned there is exactly one physics
\* material, found and reused by every later call, and the capsule of every
\* rigid body is a member of a shading group of that material.
C17_OnePhysicsMaterial ==
    /\ pcount = 0 => phys.materials = <<>>
    /\ pcount >= 1 =>
          /\ phys.materials = <<RB_MATERIAL_NAME>>
          /\ \A b \in 1..Len(phys.bodies) :
                /\ phys.bodies[b].group \in 1..Len(phys.groups)
                /\ phys.groups[phys.bodies[b].group].shader = 1

\* Three calls have been made, two rigid bodies exist and the material of the
\* first has been assigned again.
C17_Witness ==
    /\ pcount = 3
    /\ Len(phys.bodies) = 2
    /\ plast.op = "assignPhysicsMaterial"
    /\ plast.body = 1
    /\ Len(phys.materials) = 1

-----------------------------------------------------------------------------
(* updateCapsule and aimCapsule: claims *)

\* The capsule the last call worked on, by its world positions now.
PointsNow == WorldPoints(phys.bodies[plast.body])

\* The unit vector from the START vertex to the END vertex.
AxisOf(points) == Normal(VSub(Pt(points, CAPSULE_END_ID), Pt(points, CAPSULE_START_ID)))

\* The unit vector from the START vertex to a position.
DirectionTo(points, target) == Normal(VSub(target, Pt(points, CAPSULE_START_ID)))

\* C14: after aimCapsule the axis of the capsule, from the START vertex (37)
\* to the END vertex (0), points at the target.
C14_AxisPointsAtTarget ==
    plast.op = "aimCapsule" =>
        AxisOf(PointsNow) = DirectionTo(PointsNow, plast.target)

\* C15: aiming a capsule at a target on the positive x axis of its own frame
\* leaves every vertex where it was.
C15_NoRotationWhenAimed ==
    (/\ plast.op = "aimCapsule"
     /\ AxisOf(plast.before) = DirectionTo(plast.before, plast.target)) =>
        PointsNow = plast.before

\* aimCapsule has been called on a capsule, away from the world x axis, whose
\* axis already pointed at the target.
C15_Witness ==
    /\ plast.op = "aimCapsule"
    /\ AxisOf(plast.before) = DirectionTo(plast.before, plast.target)
    /\ AxisOf(plast.before) \notin {XAxis, VNeg(XAxis)}
    /\ pcount = 2

\* The last call was updateCapsule with exactly one of radius and height.
OneSizeGiven ==
    /\ plast.op = "updateCapsule"
    /\ (plast.radius = <<>>) # (plast.height = <<>>)

\* C16: updateCapsule with only one of radius and height derives the other
\* and regenerates the capsule with the START vertex (37) and the END vertex
\* (0) where they were.
C16_EndsStayFixed ==
    OneSizeGiven =>
        /\ plast.err = ""
        /\ Pt(PointsNow, CAPSULE_START_ID) = Pt(plast.before, CAPSULE_START_ID)
        /\ Pt(PointsNow, CAPSULE_END_ID) = Pt(plast.before, CAPSULE_END_ID)

-----------------------------------------------------------------------------
(* fixNifMeshes: the bone table, the slots and the block's bone list *)

\* C18: different bone names of the skin instance have different scene names,
\* so the bone-name -> bone-index table fixNifMeshes builds has one entry per
\* bone.
C18_OneEntryPerBone ==
    rlocal.bone_indices # <<>> =>
        /\ \A i, k \in 1..Len(TheShape.bones) :
              TheShape.bones[i] # TheShape.bones[k] =>
                  toMayaName(TheShape.bones[i]) # toMayaName(TheShape.bones[k])
        /\ Len(rlocal.bone_indices) = Len(TheShape.bones)


\* The weights of a run of influences, added up.
WeightSum(pairs) ==
    LET F[i \in 0..Len(pairs)] == IF i = 0 THEN 0 ELSE F[i - 1] + pairs[i][2]
    IN  F[Len(pairs)]

\* C19: after the remap, a partition vertex mapped to target vertex t, a copy
\* of source vertex s with k <= 4 surviving influences, holds in slots 0..k-1
\* the surviving influences of s in iteration order with their source weights
\* unchanged, and in slots k..3 the weight 0, whatever the slots held before;
\* any two partition vertices whose targets are copies of the same source
\* vertex hold the same influences.
C19_SlotsInSourceOrder ==
    rpc = "done" =>
        /\ \A b \in 1..Len(TheShape.blocks) :
              LET block == TheShape.blocks[b]
              IN  \A pv \in 1..Len(block.vertex_map) :
                     LET sv == Surviving(SourceOf(block.vertex_map[pv]))
                     IN  Len(sv) <= NumWeightsPerVertex =>
                            \A i \in 1..NumWeightsPerVertex :
                               IF i <= Len(sv)
                               THEN /\ block.vertex_weights[pv][i] = sv[i][2]
                                    /\ SlotBone(block, block.bone_indices[pv][i]) = sv[i][1]
                               ELSE block.vertex_weights[pv][i] = 0
        /\ \A b, c \in 1..Len(TheShape.blocks) :
              LET block == TheShape.blocks[b]
                  other == TheShape.blocks[c]
              IN  \A pv \in 1..Len(block.vertex_map), pw \in 1..Len(other.vertex_map) :
                     SourceOf(block.vertex_map[pv]) = SourceOf(other.vertex_map[pw]) =>
                        /\ block.vertex_weights[pv] = other.vertex_weights[pw]
                        /\ \A i \in 1..NumWeightsPerVertex :
                              block.vertex_weights[pv][i] # 0 =>
                                 SlotBone(block, block.bone_indices[pv][i])
                                    = SlotBone(other, other.bone_indices[pw][i])

\* C19 witness: the remap is done; a source vertex with fewer than 4 surviving
\* influences, one influence dropped and weights that do not sum to 1.0 has
\* partition vertices in two blocks, and the first slot after its influences
\* held a nonzero weight before the remap.
C19_Witness ==
    /\ rpc = "done"
    /\ \E b, c \in 1..Len(TheShape.blocks) :
          /\ b # c
          /\ \E pv \in 1..Len(TheShape.blocks[b].vertex_map),
                pw \in 1..Len(TheShape.blocks[c].vertex_map) :
                LET s == SourceOf(TheShape.blocks[b].vertex_map[pv])
                    sv == Surviving(s)
                IN  /\ s = SourceOf(TheShape.blocks[c].vertex_map[pw])
                    /\ Len(sv) \in 1..(NumWeightsPerVertex - 1)
                    /\ Len(sv) < Len(TheMesh.weights[s])
                    /\ WeightSum(sv) # Unit
                    /\ nif0[rlocal.tri].blocks[b].vertex_weights[pv][Len(sv) + 1] # 0


\* The bone table of block b has been through the extension step.
Extended(b) ==
    \/ rpc = "done"
    \/ rpc \in {"block", "vertex"} /\ b < rblock
    \/ rpc = "vertex" /\ b = rblock
    \/ /\ rpc = "error"
       /\ rerr \in {"IndexError", "KeyError: Failed to find bone index",
                    "KeyError: nif_weights[vertex]"}
       /\ b <= rblock

\* The indices of the skin instance's bone list that a table lacks.
MissingIndices(table) == {g \in 0..(Len(TheShape.bones) - 1) : ~InSeq(table, g)}

\* C20: when the remap has extended a block's bone table, the entries it had
\* keep their positions and values, the skin instance indices it lacked come
\* after them, each exactly once, and its length is the old length plus the
\* number of indices it lacked; a table not yet extended is unchanged.
C20_MissingAppended ==
    rlocal.tri # 0 =>
        \A b \in 1..Len(TheShape.blocks) :
            LET old == nif0[rlocal.tri].blocks[b].bones
                new == TheShape.blocks[b].bones
                added == SubSeq(new, Len(old) + 1, Len(new))
            IN  IF Extended(b)
                THEN /\ IsPrefix(old, new)
                     /\ Range(added) = MissingIndices(old)
                     /\ Injective(added)
                     /\ Len(new) = Len(old) + Cardinality(MissingIndices(old))
                ELSE new = old

\* C20 witness: a table of two entries that are not in ascending order has
\* been extended by more than one index.
C20_Witness ==
    /\ rlocal.tri # 0
    /\ \E b \in 1..Len(TheShape.blocks) :
          LET old == nif0[rlocal.tri].blocks[b].bones
          IN  /\ Extended(b)
              /\ Len(old) = 2
              /\ old[1] > old[2]
              /\ Len(TheShape.blocks[b].bones) > Len(old) + 1

-----------------------------------------------------------------------------
(* scaleRig: the order of disconnect, multiply and reconnect *)

\* The connections that drive one of the nine transform channels of joint j
\* from another node.
Drivers(conns, j) ==
    {c \in conns : c[2][1] = j /\ InSeq(TransformAttrs, c[2][2]) /\ c[1][1] # j}

\* scaleRig's joint loop has multiplied joint j.
Multiplied(j) ==
    /\ call.op = "scaleRig"
    /\ \/ spc \in {"load", "reconnect", "done"}
       \/ /\ spc = "rigjoints" \/ (spc = "error" /\ serr = "RuntimeError")
          /\ \E i \in 1..(sidx - 1) : call.joints[i] = j

\* The joint with its translation and radius multiplied by the scale.
ScaledJoint(joint, scale) ==
    [joint EXCEPT !.t = VMul(joint.t, scale), !.radius = Mul(joint.radius, scale)]

\* Every joint is as before the call or multiplied once, and a multiplied
\* joint has no driver until the reconnect loop.
MultipliedUndriven ==
    call.op = "scaleRig" =>
        \A j \in Joints :
            /\ scene.joints[j] = IF Multiplied(j)
                                 THEN ScaledJoint(scene0.joints[j], call.scale)
                                 ELSE scene0.joints[j]
            /\ (Multiplied(j) /\ spc \notin {"reconnect", "done"}) =>
                  Drivers(scene.conns, j) = {}

\* A step that makes a connection is taken with every joint multiplied.
ReconnectAfterAll ==
    (scene'.conns \ scene.conns # {}) => \A j \in Joints : Multiplied(j)

\* C21: in scaleRig every driver of a joint's translate/rotate/scale channels
\* is disconnected before the joint's translation and radius are multiplied,
\* and no connection is made until all joints have been multiplied.
C21_DisconnectMutateReconnect ==
    [](MultipliedUndriven) /\ [][ReconnectAfterAll]_vars

\* C21 witness: with a scale other than 1.0, all joints are multiplied, the
\* two drivers of the scene are disconnected and none is reconnected yet.
C21_Witness ==
    /\ call.op = "scaleRig"
    /\ spc = "load"
    /\ call.scale = 2 * Unit
    /\ Cardinality(scene0.conns) = 2
    /\ Len(slocal.toConnect) = 2
    /\ scene.conns = {}


\* The weight of vertex v for joint j in a skin, matched by influence: 0 when
\* the joint is no influence of the skin.
WeightOf(skin, v, j) ==
    IF InSeq(skin.infl, j) THEN skin.weights[v][IndexOf(skin.infl, j)] ELSE 0

\* Mesh m of the call is past its iteration of the mesh loop.
Snapshotted(m) ==
    \E i \in 1..Len(slocal.meshInfluenceWeights) : slocal.meshInfluenceWeights[i].mesh = m

\* Mesh m of the call has its skin rebuilt.
Reloaded(m) ==
    \/ spc \in {"reconnect", "done"}
    \/ /\ spc = "load"
       /\ \E i \in 1..(sidx - 1) : slocal.meshInfluenceWeights[i].mesh = m

\* C22: scaleRig's snapshot of a mesh holds the influence list and weights the
\* mesh had before the call; from the snapshot until the rebuild the mesh has
\* no skin, and the rebuilt skin is on the scaled points; after scaleRig every
\* vertex's weight for every joint, matched by influence name, is its value
\* before the call.
C22_WeightsRestored ==
    call.op = "scaleRig" =>
        /\ \A i \in 1..Len(slocal.meshInfluenceWeights) :
              LET snap == slocal.meshInfluenceWeights[i]
              IN  /\ snap.influences = scene0.meshes[snap.mesh].skin.infl
                  /\ \A v \in MeshVerts : \A j \in Joints :
                        SnapshotWeight(snap.weights[v], j)
                            = WeightOf(scene0.meshes[snap.mesh].skin, v, j)
        /\ \A m \in Range(call.meshes) :
              /\ (Snapshotted(m) /\ ~Reloaded(m)) => scene.meshes[m].skin = NoSkin
              /\ Reloaded(m) =>
                    /\ scene.meshes[m].skin # NoSkin
                    /\ \A v \in MeshVerts :
                          scene.meshes[m].points[v] = VMul(scene0.meshes[m].points[v], call.scale)
        /\ spc = "done" =>
              \A m \in Range(call.meshes) : \A v \in MeshVerts : \A j \in Joints :
                  WeightOf(scene.meshes[m].skin, v, j) = WeightOf(scene0.meshes[m].skin, v, j)

\* C22 witness: scaleRig is done on two meshes with a scale other than 1.0,
\* and the rebuilt skin of the first has its two influences at other indices
\* than before.
C22_Witness ==
    /\ call.op = "scaleRig"
    /\ spc = "done"
    /\ call.scale = 2 * Unit
    /\ Len(call.meshes) = 2
    /\ Len(scene0.meshes[1].skin.infl) = 2
    /\ scene.meshes[1].skin.infl # scene0.meshes[1].skin.infl

-----------------------------------------------------------------------------
(* scaleMesh: the joint order and the bindPreMatrix *)

\* The joints before the call with every joint of the scaled skeleton scaled.
FinalJoints ==
    [j \in Joints |-> IF InSeq(slocal.skeleton, j)
                      THEN ScaledJoint(scene0.joints[j], call.scale)
                      ELSE scene0.joints[j]]

\* scaleMesh's joint loop is past the joint.
Processed(j) ==
    \E i \in 1..(IF spc = "joints" THEN sidx - 1 ELSE Len(slocal.skeleton)) :
        slocal.skeleton[i] = j

\* C23: scaleMesh's joint loop takes every joint after its ancestors inside
\* the scaled skeleton; the bindPreMatrix of every influence the loop is past
\* is the inverse of the joint's world matrix in the fully scaled skeleton,
\* and no other bindPreMatrix entry is written.
C23_BindPreOfFinalSkeleton ==
    (call.op = "scaleMesh" /\ spc \in {"joints", "meshscale", "done"} /\ slocal.skeleton # <<>>) =>
        LET sk == slocal.skeleton
            skin == scene.meshes[call.meshes[1]].skin
            skin0 == scene0.meshes[call.meshes[1]].skin
        IN  /\ \A i \in 1..Len(sk) : \A a \in Joints :
                  (IsAncestor(scene.joints, a, sk[i]) /\ InSeq(sk, a)) => IndexOf(sk, a) < i
            /\ skin.infl = skin0.infl
            /\ Len(skin.bindPre) = Len(skin.infl)
            /\ \A k \in 1..Len(skin.infl) :
                  skin.bindPre[k] = IF Processed(skin.infl[k])
                                    THEN InverseWorld(FinalJoints, skin.infl[k])
                                    ELSE skin0.bindPre[k]

\* C23 witness: scaleMesh is done with a scale other than 1.0 on a skeleton
\* that holds an influence below another joint of the skeleton and a joint
\* that is no influence.
C23_Witness ==
    /\ call.op = "scaleMesh"
    /\ spc = "done"
    /\ call.scale = 2 * Unit
    /\ \E j, a, n \in Joints :
          /\ InSeq(slocal.skeleton, j) /\ InSeq(slocal.skeleton, a) /\ InSeq(slocal.skeleton, n)
          /\ InSeq(slocal.influences, j)
          /\ IsAncestor(scene.joints, a, j)
          /\ ~InSeq(slocal.influences, n)

-----------------------------------------------------------------------------
(* fixNifMeshes on a list of meshes *)

\* The tri shape fixNifMeshes patches for mesh i of the list.
ShapeFor(i) == findTriShapeByPolygons(meshes[i], nif)

\* Every partition vertex of the shape holds, slot by slot, the weights of
\* the mesh vertex it is a copy of.
HoldsWeightsOf(shape, mesh) ==
    /\ Len(shape.triangles) = Len(mesh.faces)
    /\ \A b \in 1..Len(shape.blocks) : \A pv \in 1..Len(shape.blocks[b].vertex_map) :
          \A f \in 1..Len(mesh.faces), c \in 1..3 :
              shape.triangles[f][c] = shape.blocks[b].vertex_map[pv] =>
                  \A e \in 1..Len(mesh.weights[mesh.faces[f][c]]) :
                      shape.blocks[b].vertex_weights[pv][e] = mesh.weights[mesh.faces[f][c]][e][2]

\* C24: after fixNifMeshes on a list of distinct meshes no tri shape has been
\* patched for two of them, and the tri shape of every mesh has the mesh's
\* name and weights.
C24_ShapeOfItsOwn ==
    rpc = "done" =>
        /\ \A i, k \in 1..Len(meshes) : i # k => ShapeFor(i) # ShapeFor(k)
        /\ \A i \in 1..Len(meshes) :
              /\ nif[ShapeFor(i)].name = LastComponent(meshes[i].name)
              /\ HoldsWeightsOf(nif[ShapeFor(i)], meshes[i])

-----------------------------------------------------------------------------
(* updateCapsule with the sizes the capsule has *)

\* The radius of a capsule by its vertices: half the distance between the
\* Z_UP vertex (19) and the Z_DOWN vertex (22).
RadiusOf(points) ==
    Length(VSub(Pt(points, CAPSULE_Z_UP_ID), Pt(points, CAPSULE_Z_DOWN_ID))) \div 2

\* The height of a capsule by its vertices: the distance from the START vertex
\* to the END vertex less twice the radius.
HeightOf(points) ==
    Length(VSub(Pt(points, CAPSULE_END_ID), Pt(points, CAPSULE_START_ID))) - 2 * RadiusOf(points)

\* C25: updateCapsule with the radius and the height the capsule has leaves
\* each of the 38 vertices where it was, on the first call and on every
\* repetition.
C25_SameSizeKeepsPoints ==
    (/\ plast.op = "updateCapsule"
     /\ plast.err = ""
     /\ plast.radius = <<RadiusOf(plast.before)>>
     /\ plast.height = <<HeightOf(plast.before)>>) =>
        PointsNow = plast.before

-----------------------------------------------------------------------------
(* exportSkin: the weights that reach the remap *)

\* The weights of a mesh vertex as the remap resolves them: influence i of
\* the skin cluster is bone i - 1 of the skin instance.
RemapInput(mesh, v) == [i \in 1..Len(mesh.influences) |-> <<i - 1, mesh.weights[v][i]>>]

\* The slot loop of the remap on the weights of a mesh vertex, with every
\* bone of the skin instance in the block's table.
RemapSlots(mesh, v) ==
    WriteSlots(Pruned(RemapInput(mesh, v)), 0, [i \in 1..Len(mesh.influences) |-> i - 1],
               [i \in 1..NumWeightsPerVertex |-> 0], [i \in 1..NumWeightsPerVertex |-> 0])

\* C26: when exportSkin reaches fixNifMeshes, every vertex of every skinned
\* mesh has at most 4 influences above the remap's 0.001, and the remap's slot
\* loop on it ends without an access to a slot after the fourth.
C26_AtMostFourReachRemap ==
    xpc = "patch" =>
        \A m \in 1..Len(xscene.meshes) :
            xscene.meshes[m].skinned =>
                \A v \in 1..Len(xscene.meshes[m].weights) :
                    /\ Len(Pruned(RemapInput(xscene.meshes[m], v))) <= NumWeightsPerVertex
                    /\ RemapSlots(xscene.meshes[m], v).err = ""

\* C26 witness: exportSkin is at fixNifMeshes with a vertex that has 4
\* influences for the upstream check and 3 for the remap.
C26_Witness ==
    /\ xpc = "patch"
    /\ \E m \in 1..Len(xscene.meshes) : \E v \in 1..Len(xscene.meshes[m].weights) :
          /\ Len(WeightedJoints(xscene.meshes[m], v)) = SkyrimMaxInfluences
          /\ Len(Pruned(RemapInput(xscene.meshes[m], v))) = SkyrimMaxInfluences - 1

-----------------------------------------------------------------------------
(* scaleRig: the connections after the call *)

\* C27: when scaleRig has completed, the connections of the scene are exactly
\* the connections it had before the call: every pair that was disconnected is
\* connected again, once, and no other connection exists.
C27_ConnectionsRestored ==
    (call.op = "scaleRig" /\ spc = "done") =>
        /\ scene.conns = scene0.conns
        /\ \A c \in scene0.conns :
              Cardinality({i \in 1..Len(slocal.toConnect) : slocal.toConnect[i] = c}) = 1
        /\ \A i \in 1..Len(slocal.toConnect) : slocal.toConnect[i] \in scene0.conns

\* C27 witness: scaleRig has completed on a scene with two driven channels,
\* one of them driven by a channel of another joint of the list.
C27_Witness ==
    /\ call.op = "scaleRig"
    /\ spc = "done"
    /\ Len(slocal.toConnect) = 2
    /\ \E c \in scene0.conns : c[1][1] \in Joints /\ c[2][1] \in Joints

-----------------------------------------------------------------------------
(* fixNifMeshes called again on the data it has patched *)

\* C28: when a second call of fixNifMeshes with the same meshes has
\* completed, every block of every tri shape has the bone table, the index
\* slots and the weight slots the first call left, and the bone table holds
\* no skin instance index the first call put there a second time.
C28_SecondCallChangesNothing ==
    (rpc = "done" /\ Len(rcalls) >= 1) =>
        \A k \in 1..Len(nif) :
            /\ nif[k].blocks = nif0[k].blocks
            /\ \A b \in 1..Len(nif[k].blocks) :
                  LET first == rcalls[1][k].blocks[b].bones
                      now == nif[k].blocks[b].bones
                  IN  \A i, j \in (Len(first) + 1)..Len(now) : now[i] = now[j] => i = j

\* C28 witness: the second call has completed on data whose bone table and
\* slots the first call changed.
C28_Witness ==
    /\ rpc = "done"
    /\ Len(rcalls) = 1
    /\ \E k \in 1..Len(nif) : \E b \in 1..Len(nif[k].blocks) :
          /\ Len(nif[k].blocks[b].bones) > Len(rcalls[1][k].blocks[b].bones)
          /\ nif[k].blocks[b].bone_indices # rcalls[1][k].blocks[b].bone_indices
          /\ nif[k].blocks[b].vertex_weights # rcalls[1][k].blocks[b].vertex_weights

-----------------------------------------------------------------------------
(* fixNifMeshes: the values of the index slots *)

\* The positions of a block's bone table, counted from 0
TablePositions(block) == 0..(Len(block.bones) - 1)

\* C30: when the remap has completed, each of the 4 index slots of every
\* partition vertex of every block holds a position of the block's bone table;
\* a slot left with weight 0 holds the value of the table's first entry.
C30_SlotsHoldTablePositions ==
    rpc = "done" =>
        \A k \in 1..Len(nif) : \A b \in 1..Len(nif[k].blocks) :
            LET block == nif[k].blocks[b]
            IN  \A pv \in 1..Len(block.vertex_map) : \A i \in 1..NumWeightsPerVertex :
                    /\ block.bone_indices[pv][i] \in TablePositions(block)
                    /\ (k = rlocal.tri /\ block.vertex_weights[pv][i] = 0) =>
                           block.bone_indices[pv][i] = block.bones[1]

\* C30 witness: the remap has completed with a zero-weight slot that holds
\* the first entry of an extended bone table, an entry other than 0.
C30_Witness ==
    /\ rpc = "done"
    /\ \E b \in 1..Len(nif[rlocal.tri].blocks) :
          LET block == nif[rlocal.tri].blocks[b]
              first == Head(rcalls \o <<nif0>>)
          IN  /\ block.bones[1] # 0
              /\ Len(block.bones) > Len(first[rlocal.tri].blocks[b].bones)
              /\ \E pv \in 1..Len(block.vertex_map) : \E i \in 1..NumWeightsPerVertex :
                    /\ block.vertex_weights[pv][i] = 0
                    /\ block.bone_indices[pv][i] = block.bones[1]

-----------------------------------------------------------------------------
(* The physics tool window after it is closed *)

=============================================================================
